---- MODULE Spec2Model ----
(***************************************************************************)
(* Control plane of the eBPF firewall: the IP trie of the threat-intel     *)
(* aggregator, the block-rule engine of the packet processor, the feeds of *)
(* the aggregator, the elastic worker pool, the eBPF manager and the       *)
(* middleware of the API server.  Each subsystem has its own specification *)
(* over the shared variable list (SpecTrie; SpecRules, SpecOneRule,        *)
(* SpecConc, SpecPersist and SpecRestart; SpecIntel, SpecWindow, SpecMatch *)
(* and SpecPackets; SpecFeed, SpecPublish and SpecSyncs; SpecPool and      *)
(* SpecPoolFair; SpecEbpf and SpecKernel; SpecLimit and SpecAbuse); the    *)
(* variables of the other subsystems keep their initial value.             *)
(***************************************************************************)
EXTENDS Integers, Sequences, FiniteSets, TLC

VARIABLES
    nodes,        \* iptrie: the prefixNode heap, node id -> prefixNode
    nodeCount,    \* iptrie: nodeCount of the two roots, family -> int32
    stored,       \* ghost: the networks inserted and not removed since
    trieLast,     \* ghost: the last IPTrie call and its result
    now,          \* processor: time.Now().Unix()
    rules,        \* processor: config.Blocklist.Rules
    kmaps,        \* ebpf: the keys of the kernel maps, value type -> set of keys
    windowStates, \* processor: source address -> WindowState
    tiConfig,     \* processor: config.ThreatIntel
    nextID,       \* processor: the next identifier utils.GenerateUUID returns
    ruleLast,     \* ghost: the last processor call, its result and its kernel calls
    kfailed,      \* ghost: some kernel call has failed so far
    started,      \* pool: Start has run
    done,         \* pool: the done channel is closed
    workerCount,  \* pool: the atomic workerCount
    taskQueue,    \* pool: len(taskQueue)
    worker,       \* pool: goroutine slot -> where that worker goroutine is
    submitted,    \* ghost: the number of items the queue has accepted
    processed,    \* ghost: the number of processor(data) calls
    panicked,     \* ghost: the number of processor(data) calls that panicked
    monitor,      \* pool: where the startMonitor goroutine is
    producer,     \* pool: where the startProducer goroutine is
    upd,          \* processor: caller -> where it is in updateConfig, and its copy
    acked,        \* ghost: the IDs of the rules whose AddBlockRule returned nil
    disk,         \* processor: the rule list in <data>/processor.json
    closed,       \* processor: Close has run
    wsHeap,       \* processor: the WindowState objects allocated so far
    wsPtr,        \* processor: source address -> the object p.windowStates holds
    matcher,      \* pool worker -> where it is in handleThreatIntelMatch
    matched,      \* ghost: the number of handleThreatIntelMatch calls so far
    metadata,     \* aggregator: feed name -> FeedMetadata (the sync.Map)
    files,        \* aggregator: cache file name -> the lines of the file
    aggTrie,      \* aggregator: the trie a.trie points to, as the lines inserted
    cron,         \* aggregator: feed name -> the schedule of its cron entry
    jobs,         \* aggregator: the feeds whose cron job has started
    feedLast,     \* ghost: the last aggregator call and what it did
    build,        \* aggregator: the aggregateIndicators call that is running
    reader,       \* aggregator: the Contains call that is running
    observed,     \* ghost: the complete tries a.trie has held during that call
    em,           \* ebpf: the fields of the EBPFManager
    evloop,       \* ebpf: where the monitorEvents goroutine is, and what it did
    limiter,      \* middleware: the IPRecord objects and the entry of l.ipMap
    request,      \* middleware: caller -> where it is in IsRateLimited
    security,     \* middleware: s.block of the Security manager, for one address
    blacklist,    \* middleware: the content of <data>/blacklist.json
    hits,         \* ghost: the times of the AddRecord calls on this manager since Clear
    collector,    \* metrics: the packets handed to CollectPacket, in their order
    pktLast,      \* ghost: the record processPackets ran on last, and whether it called handleThreatIntelMatch
    syncs         \* aggregator: feed -> where the syncFeed call of its cron job is

trieVars == <<nodes, nodeCount, stored, trieLast>>

ruleVars == <<now, rules, kmaps, windowStates, tiConfig, nextID, ruleLast, kfailed>>
poolGhost == <<submitted, processed, panicked>>
poolProcs == <<monitor, producer>>
poolVars == <<started, done, workerCount, taskQueue, worker, poolGhost, poolProcs>>
concVars == <<upd, acked>>
persistVars == <<disk, closed>>
matchVars == <<wsHeap, wsPtr, matcher, matched>>
feedVars == <<metadata, files, aggTrie, cron, jobs, feedLast>>
readVars == <<build, reader, observed>>
ebpfVars == <<em, evloop>>
limitVars == <<limiter, request>>
abuseVars == <<security, blacklist, hits>>
packetVars == <<collector, pktLast>>
syncVars == <<syncs>>
moreVars == <<ebpfVars, limitVars, abuseVars, packetVars, syncVars>>
extVars == <<concVars, persistVars, matchVars, feedVars, readVars, moreVars>>
vars == <<trieVars, ruleVars, poolVars, extVars>>

(***************************************************************************)
(* Bounds of the model.                                                    *)
(***************************************************************************)
MaxLeaves == 3
MaxUnderflow == 1

(***************************************************************************)
(* network.go: IPAddress ([]uint32, most significant word first) and       *)
(* IPNetwork.  Go's index i is index i + 1 here.  A uint32 word is held as *)
(* the set of the positions of its 1 bits (0 = least significant), so      *)
(* that & is intersection and every word keeps its 32 bits.                *)
(***************************************************************************)
BitsPerWord == 32
Nil == 0
BitErr == 0 - 1
LcbErr == 0 - 1

RECURSIVE Pow2(_)
Pow2(n) == IF n <= 0 THEN 1 ELSE 2 * Pow2(n - 1)

\* the word whose bits [base, base + width) hold the number v
Bits(v, base, width) == {base + k : k \in {j \in 0..(width - 1) : (v \div Pow2(j)) % 2 = 1}}

WordBit(w, k) == IF k \in w THEN 1 ELSE 0

WordAnd(a, b) == a \cap b

\* net.CIDRMask(ones, bits) as words
CIDRMask(ones, words) ==
    [i \in 1..words |->
        LET k == ones - (i - 1) * BitsPerWord
            kk == IF k < 0 THEN 0 ELSE IF k > BitsPerWord THEN BitsPerWord ELSE k
        IN  (BitsPerWord - kk)..(BitsPerWord - 1)]

\* net.IP.Mask(mask)
IPMask(ip, mask) == [i \in 1..Len(ip) |-> WordAnd(ip[i], mask[i])]

NewIPNetwork(ip, ones) ==
    [Address |-> ip, Netmask |-> CIDRMask(ones, Len(ip)), PrefixLen |-> ones]

IPAddressBit(n, position) ==
    LET wordIdx == IF position < 0 THEN 0 - 1
                   ELSE Len(n) - 1 - (position \div BitsPerWord)
    IN  IF wordIdx < 0 \/ wordIdx >= Len(n) THEN BitErr
        ELSE WordBit(n[wordIdx + 1], position % BitsPerWord)

\* the inner loop of LeastCommonBitPosition stops at the highest bit in
\* which the two words differ
RECURSIVE AddrLcbScan(_, _, _)
AddrLcbScan(n, n1, i) ==
    IF i >= Len(n) THEN 0
    ELSE LET diff == (n[i + 1] \ n1[i + 1]) \cup (n1[i + 1] \ n[i + 1])
         IN  IF diff = {} THEN AddrLcbScan(n, n1, i + 1)
             ELSE LET pos == CHOOSE k \in diff : \A j \in diff : j <= k
                  IN  IF i = 0 /\ pos = BitsPerWord - 1 THEN LcbErr
                      ELSE (pos + 1) + BitsPerWord * (Len(n) - i - 1)

AddressLeastCommonBitPosition(n, n1) ==
    IF Len(n) # Len(n1) THEN LcbErr ELSE AddrLcbScan(n, n1, 0)

Masked(n, ones) ==
    NewIPNetwork(IPMask(n.Address, CIDRMask(ones, Len(n.Address))), ones)

\* mutant: only the first word is compared, the IPv6 branch is forgotten
NetworkContains_firstWordOnly(n, nn) ==
    IF Len(n.Netmask) # Len(nn) THEN FALSE
    ELSE WordAnd(nn[1], n.Netmask[1]) = n.Address[1]

NetworkContains(n, nn) ==
    IF Len(n.Netmask) # Len(nn) THEN FALSE
    ELSE IF WordAnd(nn[1], n.Netmask[1]) # n.Address[1] THEN FALSE
    ELSE IF Len(nn) = 4
         THEN /\ WordAnd(nn[2], n.Netmask[2]) = n.Address[2]
              /\ WordAnd(nn[3], n.Netmask[3]) = n.Address[3]
              /\ WordAnd(nn[4], n.Netmask[4]) = n.Address[4]
         ELSE TRUE

NetworkLeastCommonBitPosition(n, n1) ==
    LET maskSize == IF n1.PrefixLen < n.PrefixLen THEN n1.PrefixLen ELSE n.PrefixLen
        maskPosition == Len(n1.Address) * BitsPerWord - maskSize
        lcb == AddressLeastCommonBitPosition(n.Address, n1.Address)
    IN  IF lcb = LcbErr THEN LcbErr
        ELSE IF maskPosition > lcb THEN maskPosition ELSE lcb

NetworkEqual(n, n1) == n.Address = n1.Address /\ n.Netmask = n1.Netmask

(***************************************************************************)
(* Go's int64 (time.Duration, Unix seconds).  Like a uint32 word, an int64 *)
(* is held as the set of the positions of its 1 bits, in two's complement, *)
(* so that arithmetic wraps at 64 bits as it does in Go.                   *)
(***************************************************************************)
Int64Bits == 64

\* the int64 of a number 0 <= v < 2^31
I64(v) == Bits(v, 0, 31)

\* the carry into bit k of a + b: some lower bit generates it and every bit
\* between propagates it
I64Carry(a, b, k) ==
    IF \E j \in 0..(k - 1) :
           /\ j \in a /\ j \in b
           /\ \A i \in (j + 1)..(k - 1) : i \in a \/ i \in b
    THEN 1 ELSE 0

\* a + b, wrapping at 64 bits
I64Add(a, b) ==
    {k : k \in {j \in 0..(Int64Bits - 1) :
                    (WordBit(a, j) + WordBit(b, j) + I64Carry(a, b, j)) % 2 = 1}}

I64Neg(a) == I64Add({k : k \in {j \in 0..(Int64Bits - 1) : j \notin a}}, I64(1))

I64Sub(a, b) == I64Add(a, I64Neg(b))

I64Shl(a, n) == {k + n : k \in a} \cap (0..(Int64Bits - 1))

\* a * b, wrapping at 64 bits: the sum of a << k over the 1 bits k of b
RECURSIVE I64Mul(_, _)
I64Mul(a, b) ==
    IF b = {} THEN {}
    ELSE LET k == CHOOSE k \in b : \A j \in b : j <= k
         IN  I64Add(I64Shl(a, k), I64Mul(a, b \ {k}))

I64IsNeg(a) == (Int64Bits - 1) \in a

\* a < b, signed
I64Less(a, b) ==
    IF I64IsNeg(a) # I64IsNeg(b) THEN I64IsNeg(a)
    ELSE LET diff == (a \ b) \cup (b \ a)
         IN  diff # {} /\ (CHOOSE k \in diff : \A j \in diff : j <= k) \in b

I64Shr(a, n) == {k - n : k \in {j \in a : j >= n}}

\* the number held in bits base .. base+width-1 of a
RECURSIVE WordValue(_, _, _)
WordValue(a, base, width) ==
    IF width = 0 THEN 0
    ELSE WordBit(a, base) + 2 * WordValue(a, base + 1, width - 1)

\* quotient and remainder of a >= 0 by the number d < 2^21, one digit of
\* 10 bits at a time from digit i down
RECURSIVE I64DivFrom(_, _, _, _)
I64DivFrom(a, d, i, r) ==
    IF i < 0 THEN [q |-> {}, rem |-> r]
    ELSE LET cur == r * Pow2(10) + WordValue(a, i * 10, 10)
             rest == I64DivFrom(a, d, i - 1, cur % d)
         IN  [q |-> Bits(cur \div d, i * 10, 10) \cup rest.q, rem |-> rest.rem]

\* time.Second = 10^9 = 2^9 * 5^9 nanoseconds
SecondShift == 9
SecondOdd == 1953125
Second == I64Shl(I64(SecondOdd), SecondShift)
Hour == I64Mul(Second, I64(3600))

\* floor(d / time.Second) of a signed d
I64Seconds(d) ==
    IF ~I64IsNeg(d)
    THEN I64DivFrom(I64Shr(d, SecondShift), SecondOdd, Int64Bits \div 10, 0).q
    ELSE LET n == I64Neg(d)
             m == I64DivFrom(I64Shr(n, SecondShift), SecondOdd, Int64Bits \div 10, 0)
             exact == m.rem = 0 /\ n \cap (0..(SecondShift - 1)) = {}
         IN  I64Neg(IF exact THEN m.q ELSE I64Add(m.q, I64(1)))

\* time.Unix(now, 0).Add(d).Unix()
UnixAfter(t, d) == I64Add(t, I64Seconds(d))

(***************************************************************************)
(* iptrie.go: prefixNode                                                    *)
(***************************************************************************)
v4Root == 1
v6Root == 2

NewNodeId(h) == CHOOSE id \in 1..(Cardinality(DOMAIN h) + 1) : id \notin DOMAIN h

newPathNode(network, numBitsSkipped) ==
    [parent |-> Nil, children |-> <<Nil, Nil>>, skipBits |-> numBitsSkipped,
     network |-> Masked(network, numBitsSkipped), isLeaf |-> FALSE]

newLeafNode(network) ==
    [newPathNode(network, network.PrefixLen) EXCEPT !.isLeaf = TRUE]

getTotalBits(p) == BitsPerWord * Len(p.network.Address)

\* mutant: the bit after the prefix is taken one position too high
getTargetBitPos_offByOne(p) == getTotalBits(p) - p.skipBits

getTargetBitPos(p) == getTotalBits(p) - p.skipBits - 1

getBitFromAddress(p, n) == IPAddressBit(n, getTargetBitPos(p))

getChildCount(p) == Cardinality({i \in 1..2 : p.children[i] # Nil})

NewIPTrie ==
    (v4Root :> [parent |-> Nil, children |-> <<Nil, Nil>>, skipBits |-> 0,
                network |-> NewIPNetwork(<<{}>>, 0), isLeaf |-> FALSE])
    @@ (v6Root :> [parent |-> Nil, children |-> <<Nil, Nil>>, skipBits |-> 0,
                   network |-> NewIPNetwork(<<{}, {}, {}, {}>>, 0), isLeaf |-> FALSE])

RECURSIVE containsAddress(_, _, _)
containsAddress(h, p, number) ==
    IF ~NetworkContains(h[p].network, number) THEN FALSE
    ELSE IF h[p].isLeaf THEN TRUE
    ELSE IF getTargetBitPos(h[p]) < 0 THEN FALSE
    ELSE LET bit == IPAddressBit(number, getTargetBitPos(h[p]))
         IN  IF bit = BitErr THEN FALSE
             ELSE IF h[p].children[bit + 1] = Nil THEN FALSE
             ELSE containsAddress(h, h[p].children[bit + 1], number)

\* the result of insertPrefix: the heap, the id given to pathPrefix, the error
insertPrefix(h, p, bit, pathPrefix, child) ==
    LET id == NewNodeId(h)
        h1 == [h EXCEPT ![p].children[bit + 1] = id]
              @@ (id :> [pathPrefix EXCEPT !.parent = p])
        pathPrefixBit == getBitFromAddress(pathPrefix, h[child].network.Address)
    IN  IF pathPrefixBit = BitErr THEN [h |-> h1, id |-> id, err |-> TRUE]
        ELSE [h |-> [h1 EXCEPT ![id].children[pathPrefixBit + 1] = child,
                               ![child].parent = id],
              id |-> id, err |-> FALSE]

RECURSIVE insertNetwork(_, _, _)
insertNetwork(h, current, network) ==
    IF NetworkEqual(h[current].network, network)
    THEN IF h[current].isLeaf
         THEN [h |-> h, inc |-> FALSE, err |-> FALSE]
         ELSE [h |-> [h EXCEPT ![current].isLeaf = TRUE], inc |-> TRUE, err |-> FALSE]
    ELSE LET bit == getBitFromAddress(h[current], network.Address)
         IN  IF bit = BitErr THEN [h |-> h, inc |-> FALSE, err |-> TRUE]
             ELSE LET child == h[current].children[bit + 1]
                  IN  IF child = Nil
                      THEN LET id == NewNodeId(h)
                           IN  [h |-> [h EXCEPT ![current].children[bit + 1] = id]
                                      @@ (id :> [newLeafNode(network) EXCEPT !.parent = current]),
                                inc |-> TRUE, err |-> FALSE]
                      ELSE LET lcb == NetworkLeastCommonBitPosition(network, h[child].network)
                           IN  IF lcb = LcbErr THEN [h |-> h, inc |-> FALSE, err |-> TRUE]
                               ELSE IF lcb - 1 <= getTargetBitPos(h[child])
                               THEN insertNetwork(h, child, network)
                               ELSE LET pathNode == newPathNode(network, getTotalBits(h[current]) - lcb)
                                        r == insertPrefix(h, current, bit, pathNode, child)
                                    IN  IF r.err THEN [h |-> r.h, inc |-> FALSE, err |-> TRUE]
                                        ELSE insertNetwork(r.h, r.id, network)

canCompressPath(h, p) ==
    ~h[p].isLeaf /\ getChildCount(h[p]) <= 1 /\ h[p].parent # Nil

\* for ; parent.canCompressPath(); parent = parent.parent {}
RECURSIVE compressTarget(_, _)
compressTarget(h, parent) ==
    IF canCompressPath(h, parent) THEN compressTarget(h, h[parent].parent) ELSE parent

RECURSIVE compressPath(_, _)
compressPath(h, p) ==
    IF ~canCompressPath(h, p) THEN [h |-> h, err |-> FALSE]
    ELSE LET loneChild == IF h[p].children[1] # Nil THEN h[p].children[1]
                          ELSE h[p].children[2]
             up == h[p].parent
         IN  IF loneChild = Nil
             THEN LET i == IF h[up].children[1] = p THEN 1
                           ELSE IF h[up].children[2] = p THEN 2 ELSE 0
                  IN  [h |-> IF i = 0 THEN h ELSE [h EXCEPT ![up].children[i] = Nil],
                       err |-> FALSE]
             ELSE LET parent == compressTarget(h, up)
                      parentBit == getBitFromAddress(h[parent], h[p].network.Address)
                  IN  IF parentBit = BitErr THEN [h |-> h, err |-> TRUE]
                      ELSE compressPath([h EXCEPT ![parent].children[parentBit + 1] = loneChild,
                                                  ![loneChild].parent = parent],
                                        parent)

RECURSIVE removeNetwork(_, _, _)
removeNetwork(h, p, network) ==
    IF h[p].isLeaf /\ NetworkEqual(h[p].network, network)
    THEN compressPath([h EXCEPT ![p].isLeaf = FALSE], p)
    ELSE IF getTargetBitPos(h[p]) < 0 THEN [h |-> h, err |-> FALSE]
    ELSE LET bit == getBitFromAddress(h[p], network.Address)
         IN  IF bit = BitErr THEN [h |-> h, err |-> TRUE]
             ELSE IF h[p].children[bit + 1] # Nil
             THEN removeNetwork(h, h[p].children[bit + 1], network)
             ELSE [h |-> h, err |-> FALSE]

(***************************************************************************)
(* iptrie.go: IPTrie.  An address string is modelled by what net.ParseCIDR *)
(* and net.ParseIP read from it: the address words and the prefix length   *)
(* (NoLen for a plain address); Invalid is a string that parses as neither.*)
(***************************************************************************)
NoLen == 0 - 1
NoNet == [Address |-> <<>>, Netmask |-> <<>>, PrefixLen |-> 0 - 1]
Invalid == [ip |-> <<>>, len |-> NoLen]

parseIPAddrToIPNet(addr) ==
    IF addr.ip = <<>> THEN NoNet
    ELSE IF addr.len # NoLen
         THEN NewIPNetwork(IPMask(addr.ip, CIDRMask(addr.len, Len(addr.ip))), addr.len)
         ELSE NewIPNetwork(addr.ip, BitsPerWord * Len(addr.ip))

\* ipNet.IP.To4() != nil
RootOf(ipNet) == IF Len(ipNet.Address) = 1 THEN v4Root ELSE v6Root

prefixNodeInsert(h, count, root, entry) ==
    LET r == insertNetwork(h, root, entry)
    IN  IF r.inc THEN [h |-> r.h, count |-> count + 1, err |-> r.err]
        ELSE IF ~r.err THEN [h |-> r.h, count |-> count, err |-> TRUE]
        ELSE [h |-> r.h, count |-> count, err |-> TRUE]

prefixNodeRemove(h, count, root, network) ==
    LET r == removeNetwork(h, root, network)
    IN  IF r.err THEN [h |-> r.h, count |-> count, err |-> TRUE]
        ELSE [h |-> r.h, count |-> count - 1, err |-> FALSE]

prefixNodeContains(h, root, ip) == containsAddress(h, root, ip)

IPTrieContains(h, addr) ==
    LET ipNet == parseIPAddrToIPNet(addr)
    IN  IF ipNet = NoNet THEN FALSE
        ELSE prefixNodeContains(h, RootOf(ipNet), ipNet.Address)

IPTrieSize == nodeCount[v4Root] + nodeCount[v6Root]

\* The nodes no pointer leads to any more are the garbage collector's; the
\* live ones are renamed in preorder, a pointer's value being unobservable.
RECURSIVE Preorder(_, _)
Preorder(h, p) ==
    IF p = Nil THEN <<>>
    ELSE <<p>> \o Preorder(h, h[p].children[1]) \o Preorder(h, h[p].children[2])

Live(h) ==
    LET order == <<v4Root, v6Root>> \o Tail(Preorder(h, v4Root)) \o Tail(Preorder(h, v6Root))
        name(q) == IF q = Nil THEN Nil ELSE CHOOSE i \in 1..Len(order) : order[i] = q
    IN  [i \in 1..Len(order) |->
            [h[order[i]] EXCEPT !.parent = name(@),
                                !.children = <<name(@[1]), name(@[2])>>]]

IPTrieInsert(addr) ==
    LET ipNet == parseIPAddrToIPNet(addr)
    IN  /\ IF ipNet = NoNet
           THEN /\ trieLast' = [op |-> "Insert", err |-> TRUE, was |-> FALSE]
                /\ UNCHANGED <<nodes, nodeCount, stored>>
           ELSE LET r == prefixNodeInsert(nodes, nodeCount[RootOf(ipNet)], RootOf(ipNet), ipNet)
                IN  /\ ipNet \in stored \/ Cardinality(stored) < MaxLeaves
                    /\ nodes' = Live(r.h)
                    /\ nodeCount' = [nodeCount EXCEPT ![RootOf(ipNet)] = r.count]
                    /\ stored' = stored \cup {ipNet}
                    /\ trieLast' = [op |-> "Insert", err |-> r.err,
                                    was |-> ipNet \in stored]
        /\ UNCHANGED <<ruleVars, poolVars, extVars>>

IPTrieRemove(addr) ==
    LET ipNet == parseIPAddrToIPNet(addr)
    IN  /\ IF ipNet = NoNet
           THEN /\ trieLast' = [op |-> "Remove", err |-> TRUE, was |-> FALSE]
                /\ UNCHANGED <<nodes, nodeCount, stored>>
           ELSE LET r == prefixNodeRemove(nodes, nodeCount[RootOf(ipNet)], RootOf(ipNet), ipNet)
                IN  /\ ipNet \in stored \/ Cardinality(stored) - IPTrieSize < MaxUnderflow
                    /\ nodes' = Live(r.h)
                    /\ nodeCount' = [nodeCount EXCEPT ![RootOf(ipNet)] = r.count]
                    /\ stored' = stored \ {ipNet}
                    /\ trieLast' = [op |-> "Remove", err |-> r.err,
                                    was |-> ipNet \in stored]
        /\ UNCHANGED <<ruleVars, poolVars, extVars>>

\* net.ParseIP / net.ParseCIDR of dotted-quad and of colon-hex text
IPv4(a, b, c, d) ==
    <<Bits(a, 24, 8) \cup Bits(b, 16, 8) \cup Bits(c, 8, 8) \cup Bits(d, 0, 8)>>
IPv6(a, b, g, h) ==
    <<Bits(a, 16, 16) \cup Bits(b, 0, 16), {}, {}, Bits(g, 16, 16) \cup Bits(h, 0, 16)>>
Str(ip, len) == [ip |-> ip, len |-> len]

\* the address strings the model submits to Insert and Remove
TrieInputs ==
    { Str(IPv4(0, 0, 0, 0), 0),             \* "0.0.0.0/0"
      Str(IPv4(10, 0, 0, 0), 8),            \* "10.0.0.0/8"
      Str(IPv4(10, 1, 2, 3), 16),           \* "10.1.2.3/16", the network 10.1.0.0/16
      Str(IPv4(10, 1, 2, 3), NoLen),        \* "10.1.2.3"
      Str(IPv4(10, 1, 2, 3), 32),           \* "10.1.2.3/32"
      Str(IPv4(192, 168, 1, 1), NoLen),     \* "192.168.1.1"
      Str(IPv6(8193, 3512, 0, 0), 32),      \* "2001:db8::/32"
      Str(IPv6(8193, 3512, 0, 1), NoLen),   \* "2001:db8::1"
      Str(IPv6(8193, 3512, 0, 1), 128),     \* "2001:db8::1/128"
      Str(IPv6(8193, 3512, 1, 0), 112),     \* "2001:db8::1:0/112"
      Invalid }

\* the addresses the model asks Contains about
TrieAddrs ==
    { IPv4(10, 1, 2, 3), IPv4(10, 1, 9, 9), IPv4(10, 200, 0, 1), IPv4(8, 8, 8, 8),
      IPv4(192, 168, 1, 1), IPv4(192, 168, 1, 200), IPv4(192, 168, 2, 1),
      IPv6(8193, 3512, 0, 1), IPv6(8193, 3512, 1, 7), IPv6(8193, 3512, 2, 1),
      IPv6(8193, 3513, 0, 1) }

(***************************************************************************)
(* utils.go: the kernel key of a rule value.  A value string is the record *)
(* Str(ip, len) used above; MAC strings are not among the model's values.  *)
(***************************************************************************)
IPTypeUnknown == 0
IPTypeIPv4 == 1
IPTypeIPV4CIDR == 2
IPTypeIPv6 == 3
IPTypeIPv6CIDR == 4
IPTypeMAC == 5

\* net.IP.To16: the 16-byte form, an IPv4 address as ::ffff:a.b.c.d
To16(ip) == IF Len(ip) = 1 THEN <<{}, {}, Bits(65535, 0, 16), ip[1]>> ELSE ip

\* net.IP.To4: the 4-byte form, <<>> (nil) when ip is no IPv4 address
To4(ip) ==
    IF Len(ip) = 1 THEN ip
    ELSE IF Len(ip) = 4 /\ ip[1] = {} /\ ip[2] = {} /\ ip[3] = Bits(65535, 0, 16)
         THEN <<ip[4]>>
         ELSE <<>>

\* net.ParseMAC: the bytes of the hardware address, <<>> (nil) for none.  A
\* string that is a MAC address has no address words and a field mac.
ParseMAC(value) == IF "mac" \in DOMAIN value THEN value.mac ELSE <<>>

\* net.ParseIP: always the 16-byte form, <<>> (nil) for no address
ParseIP(value) == IF value.ip = <<>> \/ value.len # NoLen THEN <<>> ELSE To16(value.ip)

ParseValueToBytes(value) ==
    IF value.len # NoLen /\ value.ip # <<>>
    THEN LET ipNet == parseIPAddrToIPNet(value)
         IN  IF Len(ipNet.Address) = 1
             THEN [bytes |-> [ones |-> ipNet.PrefixLen, ip |-> ipNet.Address],
                   iptype |-> IPTypeIPV4CIDR, err |-> FALSE]
             ELSE [bytes |-> [ones |-> ipNet.PrefixLen, ip |-> To16(ipNet.Address)],
                   iptype |-> IPTypeIPv6CIDR, err |-> FALSE]
    ELSE LET ip == ParseIP(value)
         IN  IF ip = <<>>
             THEN IF ParseMAC(value) = <<>>
                  THEN [bytes |-> <<>>, iptype |-> IPTypeUnknown, err |-> TRUE]
                  ELSE [bytes |-> ParseMAC(value), iptype |-> IPTypeMAC, err |-> FALSE]
             ELSE IF To4(ip) # <<>> /\ Len(ip) = 1
             THEN [bytes |-> To4(ip), iptype |-> IPTypeIPv4, err |-> FALSE]
             ELSE IF To16(ip) # <<>> /\ Len(ip) = 4
             THEN [bytes |-> To16(ip), iptype |-> IPTypeIPv6, err |-> FALSE]
             ELSE [bytes |-> <<>>, iptype |-> IPTypeUnknown, err |-> TRUE]

ParseStringToIPType(value) ==
    IF value.len # NoLen /\ value.ip # <<>>
    THEN IF Len(parseIPAddrToIPNet(value).Address) = 1 THEN IPTypeIPV4CIDR ELSE IPTypeIPv6CIDR
    ELSE LET ip == ParseIP(value)
         IN  IF ip = <<>>
             THEN IF ParseMAC(value) = <<>> THEN IPTypeUnknown ELSE IPTypeMAC
             ELSE IF To4(ip) # <<>> THEN IPTypeIPv4 ELSE IPTypeIPv6

(***************************************************************************)
(* ebpf.go: the kernel maps, one set of keys per value type.  kok says     *)
(* whether the bpf system calls of the operation succeed; deleting a key   *)
(* that is not in the map fails whatever kok is.                           *)
(***************************************************************************)
\* the rule values the model submits: "5.5.5.5" and "10.0.0.0/8"
RuleValues == {Str(IPv4(5, 5, 5, 5), NoLen), Str(IPv4(10, 0, 0, 0), 8)}

\* the sources whose packets match the threat intelligence: "5.5.5.5"
Sources == {Str(IPv4(5, 5, 5, 5), NoLen)}

\* the string "aa:bb:cc:dd:ee:ff"
MACStr == [ip |-> <<>>, len |-> NoLen, mac |-> <<170, 187, 204, 221, 238, 255>>]

\* the values handed to the manager directly, one or two of each kind:
\* "5.5.5.5", "192.168.1.1", "10.0.0.0/8", "2001:db8::1", "2001:db8::/32"
\* and "aa:bb:cc:dd:ee:ff"
KernelValues ==
    { Str(IPv4(5, 5, 5, 5), NoLen), Str(IPv4(192, 168, 1, 1), NoLen), Str(IPv4(10, 0, 0, 0), 8),
      Str(IPv6(8193, 3512, 0, 1), NoLen), Str(IPv6(8193, 3512, 0, 0), 32), MACStr }

\* utils.ParseValueToBytes(value) as AddRule and DeleteRule call it, computed
\* once for each value the model submits
Parsed == [value \in RuleValues \cup Sources \cup KernelValues |-> ParseValueToBytes(value)]

NewMaps == [t \in IPTypeIPv4..IPTypeMAC |-> {}]

\* a variant of updateMap that puts the key whatever add says
updateMap_putOnly(km, iptype, value, add, kok) ==
    IF iptype \notin DOMAIN km \/ ~kok THEN [km |-> km, err |-> TRUE]
    ELSE [km |-> [km EXCEPT ![iptype] = @ \cup {value}], err |-> FALSE]

updateMap(km, iptype, value, add, kok) ==
    IF iptype \notin DOMAIN km THEN [km |-> km, err |-> TRUE]
    ELSE IF add
    THEN IF kok THEN [km |-> [km EXCEPT ![iptype] = @ \cup {value}], err |-> FALSE]
         ELSE [km |-> km, err |-> TRUE]
    ELSE IF kok /\ value \in km[iptype]
         THEN [km |-> [km EXCEPT ![iptype] = @ \ {value}], err |-> FALSE]
         ELSE [km |-> km, err |-> TRUE]

AddRule(km, value, kok) ==
    LET p == Parsed[value]
    IN  IF p.err THEN [km |-> km, err |-> TRUE]
        ELSE updateMap(km, p.iptype, p.bytes, TRUE, kok)

DeleteRule(km, value, kok) ==
    LET p == Parsed[value]
    IN  IF p.err THEN [km |-> km, err |-> TRUE]
        ELSE updateMap(km, p.iptype, p.bytes, FALSE, kok)

\* the record of one call of the processor into the eBPF manager
KCall(fn, value, r) == [fn |-> fn, value |-> value, err |-> r.err]

\* a call of EBPFManager.AddRule or EBPFManager.DeleteRule on the kernel maps
ManagerRule(fn, value, kok) ==
    \E r \in {IF fn = "AddRule" THEN AddRule(kmaps, value, kok) ELSE DeleteRule(kmaps, value, kok)} :
       /\ kmaps' = r.km
       /\ ruleLast' = [ruleLast EXCEPT !.op = fn, !.err = r.err, !.calls = <<KCall(fn, value, r)>>]
       /\ kfailed' = (kfailed \/ r.err)
       /\ UNCHANGED <<now, rules, windowStates, tiConfig, nextID, trieVars, poolVars, extVars>>

(***************************************************************************)
(* processor: the block rules of the configuration, the kernel maps they   *)
(* are pushed to, and the per-source match windows.  The operations run    *)
(* one after another; now is the Unix time in seconds.                     *)
(***************************************************************************)
\* config.go declares each group as const ( A T = 1; B; C ) without iota: the
\* constants after the first repeat its expression, so all of a group are 1
BlockSourceTypeUser == 1
BlockSourceTypeIntel == 1
BlockSourceTypeAnalyzer == 1

MatchActionModeMonitor == 1
MatchActionModeBlock == 1
MatchActionModeThreshold == 1

MaxIDs == 1
MaxTicks == 1
Epoch == 1793750400

\* int64(t) for the times t the clock of the model shows
\* the seconds that pass while the processor is left alone: 25 hours
Later == 90000

Times == [t \in (Epoch..(Epoch + MaxTicks)) \cup ((Epoch + Later)..(Epoch + Later + MaxTicks)) |-> I64(t)]
I64Zero == I64(0)

BlockRule(id, value, source, createTime, enabled, expireTime) ==
    [ID |-> id, Value |-> value, Source |-> source, CreateTime |-> createTime,
     Enabled |-> enabled, ExpireTime |-> expireTime]

\* rule.ExpireTime > 0 && rule.ExpireTime <= now
Expired(rule, t) == I64Less(I64Zero, rule.ExpireTime) /\ ~I64Less(Times[t], rule.ExpireTime)

\* config.go, getDefaultConfig
getDefaultConfig ==
    [MatchMode |-> MatchActionModeThreshold,
     IgnoreLocalNetwork |-> TRUE,
     MatchThreshold |-> 3,
     MatchWindow |-> I64Mul(Hour, I64(24)),
     BlockDuration |-> I64Mul(I64Mul(Hour, I64(24)), I64(7))]

updateBlockRuleToKernel(km, rule, t, kok) ==
    IF ~rule.Enabled THEN [km |-> km, rule |-> rule, err |-> FALSE, calls |-> <<>>]
    ELSE IF Expired(rule, t)
    THEN [km |-> km, rule |-> [rule EXCEPT !.Enabled = FALSE], err |-> FALSE, calls |-> <<>>]
    ELSE LET r == AddRule(km, rule.Value, kok)
         IN  [km |-> r.km, rule |-> rule, err |-> r.err,
              calls |-> <<KCall("AddRule", rule.Value, r)>>]

\* the index of the first rule with this ID, 0 when there is none
IndexOfID(rs, id) ==
    IF \E i \in 1..Len(rs) : rs[i].ID = id
    THEN CHOOSE i \in 1..Len(rs) : rs[i].ID = id /\ \A j \in 1..(i - 1) : rs[j].ID # id
    ELSE 0

\* append(rules[:i], rules[i+1:]...)
RemoveAt(rs, i) == SubSeq(rs, 1, i - 1) \o SubSeq(rs, i + 1, Len(rs))

\* ghost: the call that has just run.  toggle is 1 after a successful
\* UpdateBlockRule that disabled an enabled, unexpired rule and kept its value,
\* 2 after a successful UpdateBlockRule that directly follows it, re-enables the
\* same rule unexpired and keeps its value, and 0 otherwise.
Last(op, id, err, calls, toggle) ==
    [op |-> op, id |-> id, err |-> err, calls |-> calls, toggle |-> toggle]

Record(op, id, err, calls, toggle) ==
    /\ ruleLast' = Last(op, id, err, calls, toggle)
    /\ kfailed' = (kfailed \/ \E k \in 1..Len(calls) : calls[k].err)

Effective(rule, t) == rule.Enabled /\ ~Expired(rule, t)


\* the body of AddBlockRule, shared with handleThreatIntelMatch
addBlockRule(rule, kok, op) ==
    LET r == updateBlockRuleToKernel(kmaps, [rule EXCEPT !.ID = nextID], now, kok)
    IN  /\ nextID' = nextID + 1
        /\ kmaps' = r.km
        /\ rules' = IF r.err THEN rules ELSE Append(rules, r.rule)
        /\ Record(op, nextID, r.err, r.calls, 0)

AddBlockRule(rule, kok) ==
    /\ addBlockRule(rule, kok, "AddBlockRule")
    /\ UNCHANGED <<now, windowStates, tiConfig, trieVars, poolVars, extVars>>

UpdateBlockRule(id, rule, kok) ==
    LET i == IndexOfID(rules, id)
    IN  /\ IF i = 0
           THEN /\ Record("UpdateBlockRule", id, TRUE, <<>>, 0)
                /\ UNCHANGED <<rules, kmaps>>
           ELSE LET oldEnabled == rules[i].Enabled
                    r == IF oldEnabled = rule.Enabled
                         THEN [km |-> kmaps, err |-> FALSE, calls |-> <<>>]
                         ELSE IF rule.Enabled
                         THEN updateBlockRuleToKernel(kmaps, rule, now, kok)
                         ELSE LET d == DeleteRule(kmaps, rule.Value, kok)
                              IN  [km |-> d.km, err |-> d.err,
                                   calls |-> <<KCall("DeleteRule", rule.Value, d)>>]
                    toggle == IF r.err \/ rule.Value # rules[i].Value THEN 0
                              ELSE IF Effective(rules[i], now) /\ ~rule.Enabled THEN 1
                              ELSE IF /\ ruleLast.toggle = 1 /\ ruleLast.id = id
                                      /\ Effective(rule, now)
                                   THEN 2
                              ELSE 0
                IN  /\ rules' = [rules EXCEPT ![i] = rule]
                    /\ kmaps' = r.km
                    /\ Record("UpdateBlockRule", id, r.err, r.calls, toggle)
        /\ UNCHANGED <<now, windowStates, tiConfig, nextID, trieVars, poolVars, extVars>>

DeleteBlockRule(id) ==
    LET i == IndexOfID(rules, id)
    IN  /\ rules' = IF i = 0 THEN rules ELSE RemoveAt(rules, i)
        /\ Record("DeleteBlockRule", id, i = 0, <<>>, 0)
        /\ UNCHANGED <<now, kmaps, windowStates, tiConfig, nextID, trieVars, poolVars, extVars>>

\* the loop of cleanupBlockRules from index i down to 1
RECURSIVE cleanupFrom(_, _, _, _, _, _)
cleanupFrom(rs, km, calls, i, t, kok) ==
    IF i < 1 THEN [rules |-> rs, km |-> km, calls |-> calls]
    ELSE IF ~Expired(rs[i], t) THEN cleanupFrom(rs, km, calls, i - 1, t, kok)
    ELSE IF ~rs[i].Enabled THEN cleanupFrom(RemoveAt(rs, i), km, calls, i - 1, t, kok)
    ELSE LET r == DeleteRule(km, rs[i].Value, kok)
             log == Append(calls, KCall("DeleteRule", rs[i].Value, r))
         IN  IF r.err THEN cleanupFrom(rs, km, log, i - 1, t, kok)
             ELSE cleanupFrom(RemoveAt(rs, i), r.km, log, i - 1, t, kok)

cleanupBlockRules(rs, km, t, kok) == cleanupFrom(rs, km, <<>>, Len(rs), t, kok)

\* now-state.FirstTime > int64(window)
WindowOver(state, t, window) == I64Less(window, I64(t - state.FirstTime))

cleanupWindowStates(ws, t, window) ==
    [s \in {x \in DOMAIN ws : ~WindowOver(ws[x], t, window)} |-> ws[s]]

\* one tick of cleanupRoutine
cleanupRoutine(kok) ==
    LET r == cleanupBlockRules(rules, kmaps, now, kok)
    IN  /\ windowStates' = cleanupWindowStates(windowStates, now, tiConfig.MatchWindow)
        /\ rules' = r.rules
        /\ kmaps' = r.km
        /\ Record("cleanupRoutine", 0, FALSE, r.calls, 0)
        /\ UNCHANGED <<now, tiConfig, nextID, trieVars, poolVars, extVars>>

WindowState(count, firstTime) == [Count |-> count, FirstTime |-> firstTime]

\* the call p.handleThreatIntelMatch(srcIP), as its callers make it
intelMatch(srcIP, kok) ==
    LET threshold == tiConfig.MatchMode = MatchActionModeThreshold
        state == IF srcIP \in DOMAIN windowStates
                    /\ ~WindowOver(windowStates[srcIP], now, tiConfig.MatchWindow)
                 THEN WindowState(windowStates[srcIP].Count + 1, windowStates[srcIP].FirstTime)
                 ELSE WindowState(1, now)
        enable == IF threshold THEN TRUE ELSE tiConfig.MatchMode = MatchActionModeBlock
        expireTime == IF I64Less(I64Zero, tiConfig.BlockDuration)
                      THEN UnixAfter(Times[now], I64Mul(tiConfig.BlockDuration, Second))
                      ELSE I64Zero
    IN  /\ windowStates' = IF threshold
                           THEN [s \in DOMAIN windowStates \cup {srcIP} |->
                                    IF s = srcIP THEN state ELSE windowStates[s]]
                           ELSE windowStates
        /\ IF threshold /\ state.Count < tiConfig.MatchThreshold
           THEN /\ Record("handleThreatIntelMatch", 0, FALSE, <<>>, 0)
                /\ UNCHANGED <<rules, kmaps, nextID>>
           ELSE addBlockRule(BlockRule(0, srcIP, BlockSourceTypeIntel, Times[now], enable, expireTime),
                             kok, "handleThreatIntelMatch")

handleThreatIntelMatch(srcIP, kok) ==
    /\ intelMatch(srcIP, kok)
    /\ UNCHANGED <<now, tiConfig, trieVars, poolVars, extVars>>

\* the clock advances by a second
Tick ==
    /\ now < Epoch + MaxTicks
    /\ now' = now + 1
    /\ UNCHANGED <<rules, kmaps, windowStates, tiConfig, nextID, ruleLast, kfailed, trieVars, poolVars, extVars>>

(***************************************************************************)
(* updateConfig under concurrent callers.  updateConfig takes no lock: a   *)
(* caller copies the published configuration (config.go:88), runs its      *)
(* closure on the copy (config.go:89) and publishes the copy (config.go:92).*)
(* The callers are API goroutines calling AddBlockRule and the goroutine   *)
(* of cleanupRoutine; the rules they add never expire, so that no closure  *)
(* shifts elements of the backing array it shares with other copies, and   *)
(* with up to three rules every append allocates a new array (capacities   *)
(* 0, 1, 2), so that the copy of a caller is private.                      *)
(***************************************************************************)
MaxCallers == 2

Callers == 1..MaxCallers

\* the goroutine of cleanupRoutine
Sweeper == 0

NoRule == BlockRule(0, Str(<<>>, NoLen), BlockSourceTypeUser, I64Zero, FALSE, I64Zero)

\* a goroutine that is not inside updateConfig
NoUpdate == [pc |-> "idle", op |-> "none", rule |-> NoRule, snap |-> <<>>]

ConcIdle ==
    /\ upd = [c \in Callers \cup {Sweeper} |-> NoUpdate]
    /\ acked = {}

\* config.go:88, newConfig := *p.getConfig()
updateConfigLoad(c, op, rule) ==
    /\ upd[c].pc = "idle"
    /\ upd' = [upd EXCEPT ![c] = [pc |-> "loaded", op |-> op, rule |-> rule, snap |-> rules]]

\* AddBlockRule up to the copy of the configuration: rule.ID = GenerateUUID()
AddBlockRuleLoad(c, rule) ==
    /\ updateConfigLoad(c, "AddBlockRule", [rule EXCEPT !.ID = nextID])
    /\ nextID' = nextID + 1
    /\ UNCHANGED <<now, rules, kmaps, windowStates, tiConfig, ruleLast, kfailed, acked,
                   trieVars, poolVars, persistVars, matchVars, feedVars, readVars, moreVars>>

\* a tick of cleanupRoutine up to the copy of the configuration
cleanupLoad ==
    /\ updateConfigLoad(Sweeper, "cleanupBlockRules", NoRule)
    /\ windowStates' = cleanupWindowStates(windowStates, now, tiConfig.MatchWindow)
    /\ UNCHANGED <<now, rules, kmaps, tiConfig, nextID, ruleLast, kfailed, acked,
                   trieVars, poolVars, persistVars, matchVars, feedVars, readVars, moreVars>>

\* config.go:89, updater(&newConfig): the closure of AddBlockRule or of
\* cleanupBlockRules runs on the copy; an error returns without publishing
updateConfigRun(c, kok) ==
    LET u == upd[c]
        r == IF u.op = "AddBlockRule"
             THEN LET k == updateBlockRuleToKernel(kmaps, u.rule, now, kok)
                  IN  [rules |-> IF k.err THEN u.snap ELSE Append(u.snap, k.rule),
                       km |-> k.km, err |-> k.err]
             ELSE LET k == cleanupBlockRules(u.snap, kmaps, now, kok)
                  IN  [rules |-> k.rules, km |-> k.km, err |-> FALSE]
    IN  /\ u.pc = "loaded"
        /\ kmaps' = r.km
        /\ upd' = [upd EXCEPT ![c] = IF r.err THEN NoUpdate
                                     ELSE [u EXCEPT !.pc = "updated", !.snap = r.rules]]
        /\ UNCHANGED <<now, rules, windowStates, tiConfig, nextID, ruleLast, kfailed, acked,
                       trieVars, poolVars, persistVars, matchVars, feedVars, readVars, moreVars>>

\* config.go:92, p.config.Store(&newConfig), and the return of nil
updateConfigStore(c) ==
    /\ upd[c].pc = "updated"
    /\ rules' = upd[c].snap
    /\ acked' = IF upd[c].op = "AddBlockRule" THEN acked \cup {upd[c].rule.ID} ELSE acked
    /\ upd' = [upd EXCEPT ![c] = NoUpdate]
    /\ UNCHANGED <<now, kmaps, windowStates, tiConfig, nextID, ruleLast, kfailed,
                   trieVars, poolVars, persistVars, matchVars, feedVars, readVars, moreVars>>

(***************************************************************************)
(* The configuration file.  loadConfig writes the default configuration    *)
(* when <data>/processor.json does not exist (config.go:99-105); after     *)
(* that saveConfig has one caller, Processor.Close (processor.go:104).     *)
(***************************************************************************)
PersistIdle ==
    /\ disk = <<>>
    /\ closed = FALSE

\* config.go, saveConfig: the rule list of the published configuration is
\* written to the file
saveConfig == disk' = rules

\* processor.go, Close: close(p.done); p.saveConfig()
ProcessorClose ==
    /\ ~closed
    /\ closed' = TRUE
    /\ saveConfig
    /\ UNCHANGED <<ruleVars, trieVars, poolVars, concVars, matchVars, feedVars, readVars, moreVars>>

(***************************************************************************)
(* handleThreatIntelMatch under concurrent pool workers, in threshold      *)
(* mode.  p.windowStates is a sync.Map from the source address to a        *)
(* *WindowState: wsPtr is the map and wsHeap the objects it has pointed    *)
(* to; windowStates stays the map as the sequential operations read it.    *)
(* A worker loads the pointer (processor.go:185), then stores a new object *)
(* (191, 201) or adds to the loaded one (196), then reads state.Count      *)
(* (204) and then calls AddBlockRule (216).                                *)
(***************************************************************************)
MaxMatchers == 2
MaxMatches == 3

Matchers == 1..MaxMatchers

NoMatch == [pc |-> "idle", src |-> Str(<<>>, NoLen), ptr |-> 0]

MatchIdle ==
    /\ wsHeap = <<>>
    /\ wsPtr = <<>>
    /\ matcher = [w \in Matchers |-> NoMatch]
    /\ matched = 0

\* p.windowStates as a map from the source address to the WindowState
WindowView(ptr, heap) == [s \in DOMAIN ptr |-> heap[ptr[s]]]

\* processor.go:185, p.windowStates.Load(srcIP)
matchLoad(w, srcIP) ==
    /\ matcher[w].pc = "idle"
    /\ tiConfig.MatchMode = MatchActionModeThreshold
    /\ matched' = matched + 1
    /\ matcher' = [matcher EXCEPT ![w] =
                      [pc |-> "loaded", src |-> srcIP,
                       ptr |-> IF srcIP \in DOMAIN wsPtr THEN wsPtr[srcIP] ELSE 0]]
    /\ UNCHANGED <<ruleVars, wsHeap, wsPtr, trieVars, poolVars, concVars, persistVars, feedVars, readVars, moreVars>>

\* processor.go:186-202: Store of a new WindowState when none was loaded or the
\* window of the loaded one is over, atomic.AddInt32 on the loaded one otherwise
matchCount(w) ==
    LET u == matcher[w]
        fresh == u.ptr = 0 \/ WindowOver(wsHeap[u.ptr], now, tiConfig.MatchWindow)
        newPtr == Len(wsHeap) + 1
    IN  /\ u.pc = "loaded"
        /\ wsHeap' = IF fresh THEN Append(wsHeap, WindowState(1, now))
                      ELSE [wsHeap EXCEPT ![u.ptr].Count = @ + 1]
        /\ wsPtr' = IF fresh
                     THEN [s \in DOMAIN wsPtr \cup {u.src} |->
                              IF s = u.src THEN newPtr ELSE wsPtr[s]]
                     ELSE wsPtr
        /\ windowStates' = WindowView(wsPtr', wsHeap')
        /\ matcher' = [matcher EXCEPT ![w] =
                          [u EXCEPT !.pc = "counted", !.ptr = IF fresh THEN newPtr ELSE u.ptr]]
        /\ UNCHANGED <<now, rules, kmaps, tiConfig, nextID, ruleLast, kfailed, matched,
                       trieVars, poolVars, concVars, persistVars, feedVars, readVars, moreVars>>

\* processor.go:204-208: if state.Count >= int32(threshold)
matchCheck(w) ==
    LET u == matcher[w]
    IN  /\ u.pc = "counted"
        /\ matcher' = [matcher EXCEPT ![w] =
                          IF wsHeap[u.ptr].Count >= tiConfig.MatchThreshold
                          THEN [u EXCEPT !.pc = "blocking"]
                          ELSE NoMatch]
        /\ UNCHANGED <<ruleVars, wsHeap, wsPtr, matched, trieVars, poolVars, concVars, persistVars, feedVars, readVars, moreVars>>

\* processor.go:212-225: the expire time and AddBlockRule
matchBlock(w, kok) ==
    LET u == matcher[w]
        expireTime == IF I64Less(I64Zero, tiConfig.BlockDuration)
                      THEN UnixAfter(Times[now], I64Mul(tiConfig.BlockDuration, Second))
                      ELSE I64Zero
    IN  /\ u.pc = "blocking"
        /\ addBlockRule(BlockRule(0, u.src, BlockSourceTypeIntel, Times[now], TRUE, expireTime),
                        kok, "handleThreatIntelMatch")
        /\ matcher' = [matcher EXCEPT ![w] = NoMatch]
        /\ UNCHANGED <<now, windowStates, tiConfig, wsHeap, wsPtr, matched,
                       trieVars, poolVars, concVars, persistVars, feedVars, readVars, moreVars>>

(***************************************************************************)
(* aggregator.go: the feeds, their metadata, their cron entries, their     *)
(* cache files and the published trie.  A trie is the node heap and the    *)
(* nodeCount of its two roots.  What Fetch returns and the order in which  *)
(* metadata.Range visits the feeds are chosen by the environment; a cache  *)
(* file is the sequence of lines that strings.Join writes and              *)
(* strings.Split reads back.  The operations of this section run one after *)
(* another.                                                                *)
(***************************************************************************)
\* NewAggregator registers these two providers, under their lower-case names
Feeds == {"abuseipdb", "spamhaus"}

FeedMetadata(name, schedule, enabled, params) ==
    [Name |-> name, Schedule |-> schedule, Enabled |-> enabled, Params |-> params]

NoMetadata == FeedMetadata("", "", FALSE, "")

\* provider.Schedule()
DefaultSchedule(name) == IF name = "abuseipdb" THEN "30 2,18 * * *" ELSE "30 2 * * *"

\* cron.ParseStandard accepts the expression
ValidSchedule(schedule) == schedule \in {"30 2,18 * * *", "30 2 * * *", "0 * * * *"}

\* GenerateFeedsMetadata: every feed disabled, with its default schedule
GenerateFeedsMetadata ==
    [name \in Feeds |-> FeedMetadata(name, DefaultSchedule(name), FALSE, "default")]

getIntelligenceFilename(name) == <<"threatintel", name, "txt">>

NewTrie == [nodes |-> NewIPTrie, nodeCount |-> (v4Root :> 0) @@ (v6Root :> 0)]

\* IPTrie.Insert on a trie value
TrieInsert(t, addr) ==
    LET ipNet == parseIPAddrToIPNet(addr)
    IN  IF ipNet = NoNet THEN [trie |-> t, err |-> TRUE]
        ELSE LET r == prefixNodeInsert(t.nodes, t.nodeCount[RootOf(ipNet)], RootOf(ipNet), ipNet)
             IN  [trie |-> [nodes |-> Live(r.h),
                            nodeCount |-> [t.nodeCount EXCEPT ![RootOf(ipNet)] = r.count]],
                  err |-> r.err]

TrieSize(t) == t.nodeCount[v4Root] + t.nodeCount[v6Root]

TrieContains(t, addr) == IPTrieContains(t.nodes, addr)

\* aggregator.go:181-186, the inserts of lines from line i
RECURSIVE insertLines(_, _, _)
insertLines(t, lines, i) ==
    IF i > Len(lines) THEN t
    ELSE insertLines(TrieInsert(t, lines[i]).trie, lines, i + 1)

\* The aggregator only ever makes a new trie and inserts lines into it, so
\* the model holds such a trie as the lines inserted so far, in their order;
\* TrieOf is the trie itself
TrieOf(lines) == insertLines(NewTrie, lines, 1)

\* the state of the aggregator as one value: the operations below are
\* functions from such a value to the next one
Aggregator(md, fs, t, cr, log) ==
    [metadata |-> md, files |-> fs, trie |-> t, cron |-> cr, log |-> log]

Logged(a, event) == [a EXCEPT !.log = Append(@, event)]

\* m without the key k
Without(m, k) == [x \in DOMAIN m \ {k} |-> m[x]]

\* m with the key k set to v
With(m, k, v) == [x \in DOMAIN m \cup {k} |-> IF x = k THEN v ELSE m[x]]

\* aggregator.go:167-181, the lines Range reads: those of the cache files of
\* the enabled feeds, from feed i of order
RECURSIVE linesFrom(_, _, _, _)
linesFrom(md, fs, order, i) ==
    IF i > Len(order) THEN <<>>
    ELSE IF order[i] \notin DOMAIN md THEN linesFrom(md, fs, order, i + 1)
    ELSE LET info == md[order[i]]
             filename == getIntelligenceFilename(info.Name)
         IN  IF ~info.Enabled \/ filename \notin DOMAIN fs
             THEN linesFrom(md, fs, order, i + 1)
             ELSE fs[filename] \o linesFrom(md, fs, order, i + 1)

\* aggregator.go:164-193: a new trie, the lines inserted, a.trie = trie
aggregateIndicators(a, order) ==
    [Logged(a, "aggregate") EXCEPT !.trie = linesFrom(a.metadata, a.files, order, 1)]

\* the entries of ips that syncFeed keeps
validIPs(ips) == SelectSeq(ips, LAMBDA ip : ParseStringToIPType(ip) # IPTypeUnknown)

syncFeed(a, name, fetch, order) ==
    LET called == Logged(a, "syncFeed")
    IN  IF name \notin Feeds THEN called
        ELSE IF name \notin DOMAIN a.metadata \/ ~a.metadata[name].Enabled THEN called
        ELSE IF fetch.err THEN Logged(called, "fetch")
        ELSE IF Len(fetch.ips) = 0 \/ Len(validIPs(fetch.ips)) = 0 THEN Logged(called, "fetch")
        ELSE aggregateIndicators(
                 [Logged(Logged(called, "fetch"), "write") EXCEPT
                     !.files = With(@, getIntelligenceFilename(name), validIPs(fetch.ips))],
                 order)

\* aggregator.go, schedule: the old entry goes, the new one is added, the feed
\* is synced; cron.AddFunc fails on an expression that does not parse
schedule(a, name, spec, fetch, order) ==
    LET removed == IF name \in DOMAIN a.cron
                   THEN [Logged(a, "cron.Remove") EXCEPT !.cron = Without(@, name)]
                   ELSE a
    IN  IF ~ValidSchedule(spec) THEN [a |-> removed, err |-> TRUE]
        ELSE [a |-> syncFeed([Logged(removed, "cron.AddFunc") EXCEPT !.cron = With(@, name, spec)],
                             name, fetch, order),
              err |-> FALSE]

disableFeed(a, name, order) ==
    LET removed == IF name \in DOMAIN a.cron
                   THEN [Logged(a, "cron.Remove") EXCEPT !.cron = Without(@, name)]
                   ELSE a
        deleted == IF name \in DOMAIN removed.metadata
                   THEN [removed EXCEPT
                            !.files = Without(@, getIntelligenceFilename(name)),
                            !.metadata = Without(@, name)]
                   ELSE removed
    IN  aggregateIndicators(deleted, order)

\* a variant of updateFeedMetadata that does not sync when only the params change
updateFeedMetadata_noParamsSync(a, name, info, fetch, order) ==
    IF name \notin Feeds THEN [a |-> a, err |-> TRUE]
    ELSE IF info.Schedule # "" /\ ~ValidSchedule(info.Schedule) THEN [a |-> a, err |-> TRUE]
    ELSE IF name \notin DOMAIN a.metadata THEN [a |-> a, err |-> TRUE]
    ELSE LET current == a.metadata[name]
             saved == [a EXCEPT !.metadata = With(@, name, info)]
             scheduled == schedule(saved, name, info.Schedule, fetch, order)
             restored == [a |-> [scheduled.a EXCEPT !.metadata = With(@, name, current)],
                          err |-> TRUE]
         IN  IF ~current.Enabled /\ info.Enabled
             THEN IF scheduled.err THEN restored ELSE scheduled
             ELSE IF current.Enabled /\ ~info.Enabled
             THEN [a |-> disableFeed(saved, name, order), err |-> FALSE]
             ELSE IF info.Enabled /\ current.Schedule # info.Schedule
             THEN IF scheduled.err THEN restored ELSE scheduled
             ELSE [a |-> saved, err |-> FALSE]

\* a variant of updateFeedMetadata that leaves the cache file of a disabled feed
updateFeedMetadata_keepFile(a, name, info, fetch, order) ==
    IF name \notin Feeds THEN [a |-> a, err |-> TRUE]
    ELSE IF info.Schedule # "" /\ ~ValidSchedule(info.Schedule) THEN [a |-> a, err |-> TRUE]
    ELSE IF name \notin DOMAIN a.metadata THEN [a |-> a, err |-> TRUE]
    ELSE LET current == a.metadata[name]
             saved == [a EXCEPT !.metadata = With(@, name, info)]
             scheduled == schedule(saved, name, info.Schedule, fetch, order)
             restored == [a |-> [scheduled.a EXCEPT !.metadata = With(@, name, current)],
                          err |-> TRUE]
         IN  IF ~current.Enabled /\ info.Enabled
             THEN IF scheduled.err THEN restored ELSE scheduled
             ELSE IF current.Enabled /\ ~info.Enabled
             THEN [a |-> [saved EXCEPT !.cron = Without(@, name)], err |-> FALSE]
             ELSE IF info.Enabled /\ current.Schedule # info.Schedule
             THEN IF scheduled.err THEN restored ELSE scheduled
             ELSE IF info.Enabled /\ current.Params # info.Params
             THEN [a |-> syncFeed(saved, name, fetch, order), err |-> FALSE]
             ELSE [a |-> saved, err |-> FALSE]

\* aggregator.go, UpdateFeedMetadata, on the aggregator value; name is in lower
\* case already
updateFeedMetadata(a, name, info, fetch, order) ==
    IF name \notin Feeds THEN [a |-> a, err |-> TRUE]
    ELSE IF info.Schedule # "" /\ ~ValidSchedule(info.Schedule) THEN [a |-> a, err |-> TRUE]
    ELSE IF name \notin DOMAIN a.metadata THEN [a |-> a, err |-> TRUE]
    ELSE LET current == a.metadata[name]
             saved == [a EXCEPT !.metadata = With(@, name, info)]
             scheduled == schedule(saved, name, info.Schedule, fetch, order)
             restored == [a |-> [scheduled.a EXCEPT !.metadata = With(@, name, current)],
                          err |-> TRUE]
         IN  IF ~current.Enabled /\ info.Enabled
             THEN IF scheduled.err THEN restored ELSE scheduled
             ELSE IF current.Enabled /\ ~info.Enabled
             THEN [a |-> disableFeed(saved, name, order), err |-> FALSE]
             ELSE IF info.Enabled /\ current.Schedule # info.Schedule
             THEN IF scheduled.err THEN restored ELSE scheduled
             ELSE IF info.Enabled /\ current.Params # info.Params
             THEN [a |-> syncFeed(saved, name, fetch, order), err |-> FALSE]
             ELSE [a |-> saved, err |-> FALSE]

\* the aggregator as the variables hold it, with an empty log
TheAggregator == Aggregator(metadata, files, aggTrie, cron, <<>>)

\* Fetch has not been asked
NoFetch == [ips |-> <<>>, err |-> FALSE]

\* ghost: the call that has just run, the metadata it found and the one it was
\* given, what Fetch had to return, and what the call did
FeedLast(op, name, err, old, new, fetch, log) ==
    [op |-> op, name |-> name, err |-> err, old |-> old, new |-> new,
     fetch |-> fetch, log |-> log]

\* what Fetch returned to a call with this log, if the call asked
Asked(log, fetch) == IF \E i \in DOMAIN log : log[i] = "fetch" THEN fetch ELSE NoFetch

\* the order in which Range visited the feeds in a call with this log, if the
\* call aggregated
Ranged(log, order) ==
    IF \E i \in DOMAIN log : log[i] = "aggregate" THEN order ELSE <<"abuseipdb", "spamhaus">>

\* the variables take the aggregator value a
Becomes(a) ==
    /\ metadata' = a.metadata
    /\ files' = a.files
    /\ aggTrie' = a.trie
    /\ cron' = a.cron

FeedIdle ==
    /\ metadata = GenerateFeedsMetadata
    /\ files = <<>>
    /\ aggTrie = <<>>
    /\ cron = <<>>
    /\ jobs = {}
    /\ feedLast = FeedLast("none", "", FALSE, NoMetadata, NoMetadata, NoFetch, <<>>)

UpdateFeedMetadata(name, md, fetch, order) ==
    \E r \in {updateFeedMetadata(TheAggregator, name, md, fetch, order)} :
        \* a call that does not reach Fetch or Range has no such input
        /\ fetch = Asked(r.a.log, fetch)
        /\ order = Ranged(r.a.log, order)
        /\ Becomes(r.a)
        /\ feedLast' = FeedLast("UpdateFeedMetadata", name, r.err,
                                IF name \in DOMAIN metadata THEN metadata[name] ELSE NoMetadata,
                                md, Asked(r.a.log, fetch), r.a.log)
        /\ UNCHANGED <<jobs, trieVars, ruleVars, poolVars, concVars, persistVars, matchVars, readVars, moreVars>>

\* the scheduler starts the job of an entry: go func() { a.syncFeed(name) }
cronFire(name) ==
    /\ name \in DOMAIN cron
    /\ jobs' = jobs \cup {name}
    /\ UNCHANGED <<metadata, files, aggTrie, cron, feedLast,
                   trieVars, ruleVars, poolVars, concVars, persistVars, matchVars, readVars, moreVars>>

\* a started job runs a.syncFeed(name)
cronJob(name, fetch, order) ==
    \E a \in {syncFeed(TheAggregator, name, fetch, order)} :
        /\ name \in jobs
        \* a run that does not reach Fetch or Range has no such input
        /\ fetch = Asked(a.log, fetch)
        /\ order = Ranged(a.log, order)
        /\ jobs' = jobs \ {name}
        /\ Becomes(a)
        /\ feedLast' = FeedLast("syncFeed", name, FALSE,
                                IF name \in DOMAIN metadata THEN metadata[name] ELSE NoMetadata,
                                NoMetadata, Asked(a.log, fetch), a.log)
        /\ UNCHANGED <<trieVars, ruleVars, poolVars, concVars, persistVars, matchVars, readVars, moreVars>>

(***************************************************************************)
(* aggregateIndicators against Contains: the steps of one rebuild of the   *)
(* trie and of one Contains call.  syncFeed runs on the goroutine of a     *)
(* cron job, Contains on a pool worker.  The rebuild fills a trie of its   *)
(* own line by line and stores it in a.trie under a.mu.Lock; Contains      *)
(* loads a.trie for the Size test without the lock and again under         *)
(* a.mu.RLock.  A load of the pointer yields the trie the last store left, *)
(* whether or not the lock is held.                                        *)
(***************************************************************************)
NoBuild == [pc |-> "idle", trie |-> <<>>, lines |-> <<>>]

NoReader == [pc |-> "idle", ip |-> Invalid, first |-> <<>>, result |-> FALSE]

ReadIdle ==
    /\ build = NoBuild
    /\ reader = NoReader
    /\ observed = {}

\* a variant of aTrie for a rebuild that fills the trie a.trie points to
aTrie_inPlace == IF build.pc = "building" THEN build.trie ELSE aggTrie

\* what a load of a.trie yields: the rebuild works on the local variable trie
\* (aggregator.go:165) until a.trie = trie (aggregator.go:190)
aTrie == aggTrie

\* syncFeed of an enabled feed up to os.WriteFile, and the start of
\* aggregateIndicators: trie := iptrie.NewIPTrie()
syncFeedWrite(name, fetch, order) ==
    /\ build.pc = "idle"
    /\ name \in DOMAIN metadata /\ metadata[name].Enabled
    /\ ~fetch.err /\ Len(validIPs(fetch.ips)) > 0
    /\ files' = With(files, getIntelligenceFilename(name), validIPs(fetch.ips))
    /\ build' = [pc |-> "building", trie |-> <<>>,
                 lines |-> linesFrom(metadata, files', order, 1)]
    /\ UNCHANGED <<metadata, aggTrie, cron, jobs, feedLast, reader, observed,
                   trieVars, ruleVars, poolVars, concVars, persistVars, matchVars, moreVars>>

\* aggregator.go:181-186, one trie.Insert(line)
aggregateInsert ==
    /\ build.pc = "building"
    /\ build.lines # <<>>
    /\ build' = [build EXCEPT !.trie = Append(@, Head(build.lines)),
                              !.lines = Tail(@)]
    /\ UNCHANGED <<feedVars, reader, observed,
                   trieVars, ruleVars, poolVars, concVars, persistVars, matchVars, moreVars>>

\* aggregator.go:189-191, a.mu.Lock(); a.trie = trie; a.mu.Unlock()
aggregatePublish ==
    /\ build.pc = "building"
    /\ build.lines = <<>>
    /\ aggTrie' = build.trie
    /\ build' = NoBuild
    /\ observed' = IF reader.pc = "checked"
                   THEN observed \cup {aggregateIndicators(TheAggregator,
                                                           <<"abuseipdb", "spamhaus">>).trie}
                   ELSE observed
    /\ UNCHANGED <<metadata, files, cron, jobs, feedLast, reader,
                   trieVars, ruleVars, poolVars, concVars, persistVars, matchVars, moreVars>>

\* Contains, aggregator.go:300: the Size test on a.trie before the lock
ContainsSize(ip) ==
    /\ reader.pc = "idle"
    /\ reader' = [pc |-> IF TrieSize(TrieOf(aTrie)) < 1 THEN "done" ELSE "checked",
                  ip |-> ip, first |-> aTrie, result |-> FALSE]
    /\ observed' = {aggTrie}
    /\ UNCHANGED <<feedVars, build,
                   trieVars, ruleVars, poolVars, concVars, persistVars, matchVars, moreVars>>

\* Contains, aggregator.go:303-305: a.trie.Contains(ip) under a.mu.RLock
ContainsLocked ==
    /\ reader.pc = "checked"
    /\ reader' = [reader EXCEPT !.pc = "done", !.result = TrieContains(TrieOf(aTrie), reader.ip)]
    /\ UNCHANGED <<feedVars, build, observed,
                   trieVars, ruleVars, poolVars, concVars, persistVars, matchVars, moreVars>>

\* the caller has the result
ContainsReturn ==
    /\ reader.pc = "done"
    /\ reader' = NoReader
    /\ observed' = {}
    /\ UNCHANGED <<feedVars, build,
                   trieVars, ruleVars, poolVars, concVars, persistVars, matchVars, moreVars>>

(***************************************************************************)
(* ElasticPool: the goroutines of a pool and the steps at which they       *)
(* interleave.  A worker goroutine is "spawned" from the go statement      *)
(* until its workerCount.Add(1), "running" in its select loop, "leaving"   *)
(* from the return out of the loop until the deferred workerCount.Add(-1), *)
(* and "none" before and after.                                            *)
(***************************************************************************)
MinWorkers == 1
MaxWorkers == 2
QueueSize == 2
MaxGoroutines == 4
\* the number of items the producer submits in one behaviour
MaxTasks == 3

Workers == 1..MaxGoroutines

NewElasticPool ==
    /\ started = FALSE
    /\ done = FALSE
    /\ workerCount = 0
    /\ taskQueue = 0
    /\ worker = [w \in Workers |-> "none"]
    /\ submitted = 0
    /\ processed = 0
    /\ panicked = 0
    /\ monitor = "none"
    /\ producer = "none"

\* an unrecovered panic ends the process and all its goroutines
Alive == producer # "panicked"

\* Start: go startWorker() MinWorkers times, go startProducer(), go startMonitor()
Start ==
    /\ ~started
    /\ started' = TRUE
    /\ monitor' = "running"
    /\ producer' = "running"
    /\ worker' = [w \in Workers |-> IF w <= MinWorkers THEN "spawned" ELSE "none"]
    /\ UNCHANGED <<done, workerCount, taskQueue, poolGhost, trieVars, ruleVars, extVars>>

\* startProducer: the producer hands a task to the pool and the send on
\* taskQueue is taken (with a full queue the call waits in the select)
startProducer ==
    /\ producer = "running" /\ ~done
    /\ taskQueue < QueueSize
    /\ taskQueue' = taskQueue + 1
    /\ submitted' = submitted + 1
    /\ UNCHANGED <<started, done, workerCount, worker, processed, panicked, poolProcs, trieVars, ruleVars, extVars>>

\* startWorker, line 100: p.workerCount.Add(1)
workerBegin(w) ==
    /\ Alive
    /\ worker[w] = "spawned"
    /\ workerCount' = workerCount + 1
    /\ worker' = [worker EXCEPT ![w] = "running"]
    /\ UNCHANGED <<started, done, taskQueue, poolGhost, poolProcs, trieVars, ruleVars, extVars>>

\* a variant of the task branch without the deferred recover: the panic of
\* the processor unwinds startWorker, whose deferred Add(-1) then runs
workerTask_noRecover(w) ==
    /\ Alive
    /\ worker[w] = "running"
    /\ taskQueue > 0
    /\ taskQueue' = taskQueue - 1
    /\ processed' = processed + 1
    /\ \E panics \in BOOLEAN :
          /\ panicked' = IF panics THEN panicked + 1 ELSE panicked
          /\ worker' = IF panics THEN [worker EXCEPT ![w] = "leaving"] ELSE worker
    /\ UNCHANGED <<started, done, workerCount, submitted, poolProcs, trieVars, ruleVars, extVars>>

\* startWorker, case data := <-p.taskQueue: the processor runs on the task
\* inside a function whose deferred recover() stops a panic; the worker is
\* back in its select loop either way
workerTask(w) ==
    /\ Alive
    /\ worker[w] = "running"
    /\ taskQueue > 0
    /\ taskQueue' = taskQueue - 1
    /\ processed' = processed + 1
    /\ \E panics \in BOOLEAN :
          /\ panicked' = IF panics THEN panicked + 1 ELSE panicked
          /\ worker' = worker
    /\ UNCHANGED <<started, done, workerCount, submitted, poolProcs, trieVars, ruleVars, extVars>>

\* startWorker, case <-idleTimeout.C
workerIdle(w) ==
    /\ Alive
    /\ worker[w] = "running"
    /\ worker' = IF workerCount > MinWorkers THEN [worker EXCEPT ![w] = "leaving"] ELSE worker
    /\ UNCHANGED <<started, done, workerCount, taskQueue, poolGhost, poolProcs, trieVars, ruleVars, extVars>>

\* startWorker, case <-p.done, and the receive from the closed taskQueue
workerDone(w) ==
    /\ Alive
    /\ worker[w] = "running"
    /\ done
    /\ worker' = [worker EXCEPT ![w] = "leaving"]
    /\ UNCHANGED <<started, done, workerCount, taskQueue, poolGhost, poolProcs, trieVars, ruleVars, extVars>>

\* startWorker, line 101: defer p.workerCount.Add(-1)
workerEnd(w) ==
    /\ Alive
    /\ worker[w] = "leaving"
    /\ workerCount' = workerCount - 1
    /\ worker' = [worker EXCEPT ![w] = "none"]
    /\ UNCHANGED <<started, done, taskQueue, poolGhost, poolProcs, trieVars, ruleVars, extVars>>

\* a variant of startMonitor that does not look at the worker count
startMonitor_anyCount ==
    LET free == {w \in Workers : w > MinWorkers /\ worker[w] = "none"}
        scale == taskQueue > QueueSize \div 2
    IN  /\ Alive
        /\ monitor = "running"
        /\ scale => free # {}
        /\ worker' = IF scale
                     THEN [worker EXCEPT ![CHOOSE w \in free : \A x \in free : w <= x] = "spawned"]
                     ELSE worker
        /\ UNCHANGED <<started, done, workerCount, taskQueue, poolGhost, poolProcs, trieVars, ruleVars, extVars>>

\* startMonitor, case <-ticker.C; a new goroutine takes the first free slot
\* after those of the initial workers.  With done closed and a tick waiting
\* in ticker.C both cases of the select are ready and either is taken
startMonitor ==
    LET free == {w \in Workers : w > MinWorkers /\ worker[w] = "none"}
        scale == taskQueue > QueueSize \div 2 /\ workerCount < MaxWorkers
    IN  /\ Alive
        /\ monitor = "running"
        /\ scale => free # {}
        /\ worker' = IF scale
                     THEN [worker EXCEPT ![CHOOSE w \in free : \A x \in free : w <= x] = "spawned"]
                     ELSE worker
        /\ UNCHANGED <<started, done, workerCount, taskQueue, poolGhost, poolProcs, trieVars, ruleVars, extVars>>

\* Close: close(p.done); close(p.taskQueue)
Close ==
    /\ Alive
    /\ started /\ ~done
    /\ done' = TRUE
    /\ UNCHANGED <<started, workerCount, taskQueue, worker, poolGhost, poolProcs, trieVars, ruleVars, extVars>>

\* startMonitor, case <-p.done: the monitor returns
monitorDone ==
    /\ Alive
    /\ monitor = "running"
    /\ done
    /\ monitor' = "ended"
    /\ UNCHANGED <<started, done, workerCount, taskQueue, worker, poolGhost, producer,
                   trieVars, ruleVars, extVars>>

\* the submit closure when its select runs after Close: done is closed and so
\* is taskQueue, so both cases can proceed and one is picked at random.
\* case <-p.done returns (a call that was already waiting on a full queue is
\* woken by close(p.done) and returns this way); case p.taskQueue <- data is
\* a send on a closed channel, which panics in the producer goroutine, where
\* nothing recovers
submitClosed ==
    /\ producer = "running"
    /\ done
    /\ \E send \in BOOLEAN : producer' = IF send THEN "panicked" ELSE "returned"
    /\ UNCHANGED <<started, done, workerCount, taskQueue, worker, poolGhost, monitor,
                   trieVars, ruleVars, extVars>>

(***************************************************************************)
(* The eBPF manager (internal/ebpf/ebpf.go).  em holds the fields of the   *)
(* EBPFManager: a field is "nil" until Start sets it; the done channel is  *)
(* then "open" or "closed", the reader, the link and the objects are       *)
(* "open" or "closed".  perf.Reader is a library type: Read returns a      *)
(* record, an error, or, once the reader is closed, an error for which     *)
(* err == perf.ErrClosed is true (the value itself) or false (a wrapping   *)
(* error); both are given.                                                 *)
(***************************************************************************)
\* the records the event loop reads in one behaviour
MaxRecords == 3

NewEBPFManager ==
    [done |-> "nil", reader |-> "nil", link |-> "nil", objects |-> "nil", linkType |-> ""]

\* the points at which Start can fail, and "none"
StartFailures == {"none", "interface", "load", "attach", "reader"}

\* attachXDP tries the three modes in this order and keeps the first that attaches
AttachModes == {"offload", "driver", "generic"}

Closed(field) == IF field = "nil" THEN "nil" ELSE "closed"

\* EBPFManager.Close: close(em.done) panics on a channel that is closed
\* already; the other Close calls return an error then, which is dropped
ManagerClose(e) ==
    IF e.done = "closed"
    THEN [em |-> e, err |-> FALSE, panic |-> TRUE]
    ELSE [em |-> [e EXCEPT !.done = Closed(@), !.reader = Closed(@),
                           !.link = Closed(@), !.objects = Closed(@)],
          err |-> FALSE, panic |-> FALSE]

\* EBPFManager.Start that fails at the given point, and attaches in the given mode
ManagerStart(e, fail, mode) ==
    LET loaded == [e EXCEPT !.objects = "open"]
        attached == [loaded EXCEPT !.link = "open", !.linkType = mode]
    IN  CASE fail \in {"interface", "load"} -> [em |-> e, err |-> TRUE, panic |-> FALSE]
          [] fail = "attach" -> [ManagerClose(loaded) EXCEPT !.err = TRUE]
          [] fail = "reader" -> [ManagerClose(attached) EXCEPT !.err = TRUE]
          [] OTHER -> [em |-> [attached EXCEPT !.reader = "open", !.done = "open"],
                       err |-> FALSE, panic |-> FALSE]

\* monitorEvents has not been called; no record read, no restart attempted
NoLoop == [pc |-> "none", records |-> 0, restarts |-> 0, last |-> "none"]

EbpfIdle ==
    /\ em = NewEBPFManager
    /\ evloop = NoLoop

\* main: ebpfManager.Start(), fatal on an error, then pool.Start(), which
\* calls monitorEvents in the producer goroutine
mainStart(fail, mode) ==
    /\ evloop.pc = "none"
    /\ em = NewEBPFManager
    /\ \E r \in {ManagerStart(em, fail, mode)} :
          /\ em' = r.em
          /\ evloop' = [evloop EXCEPT !.pc = IF r.err THEN "fatal" ELSE "select",
                                      !.last = "Start"]
    /\ UNCHANGED <<trieVars, ruleVars, poolVars, concVars, persistVars, matchVars, feedVars, readVars, limitVars, abuseVars, packetVars, syncVars>>

\* main, at shutdown: ebpfManager.Close()
mainClose ==
    /\ evloop.pc \in {"select", "read", "returned"}
    /\ em.done = "open"
    /\ em' = ManagerClose(em).em
    /\ evloop' = [evloop EXCEPT !.last = "Close"]
    /\ UNCHANGED <<trieVars, ruleVars, poolVars, concVars, persistVars, matchVars, feedVars, readVars, limitVars, abuseVars, packetVars, syncVars>>

\* monitorEvents: select { case <-em.done: return; default: ... }
loopSelect ==
    /\ evloop.pc = "select"
    /\ evloop' = [evloop EXCEPT !.pc = IF em.done = "closed" THEN "returned" ELSE "read",
                                !.last = "select"]
    /\ UNCHANGED <<em, trieVars, ruleVars, poolVars, concVars, persistVars, matchVars, feedVars, readVars, limitVars, abuseVars, packetVars, syncVars>>

\* monitorEvents: em.reader.Read() returns a record; one that decodes is
\* submitted, one that does not is skipped
loopRecord(decodes) ==
    /\ evloop.pc = "read"
    /\ em.reader = "open"
    /\ evloop.records < MaxRecords
    /\ evloop' = [evloop EXCEPT !.pc = "select",
                                !.records = IF decodes THEN @ + 1 ELSE @,
                                !.last = IF decodes THEN "submit" ELSE "skip"]
    /\ UNCHANGED <<em, trieVars, ruleVars, poolVars, concVars, persistVars, matchVars, feedVars, readVars, limitVars, abuseVars, packetVars, syncVars>>

\* monitorEvents: em.reader.Read() returns an error.  With the reader closed
\* the error is or wraps perf.ErrClosed; is says whether err == perf.ErrClosed
\* holds.  If it holds: em.Close(), em.Start(), log.Fatalf on an error, return
loopError(is, fail, mode) ==
    /\ evloop.pc = "read"
    /\ is => em.reader = "closed"
    /\ \E c \in {ManagerClose(em)} :
       \E r \in {IF c.panic THEN c ELSE ManagerStart(c.em, fail, mode)} :
          /\ em' = IF is THEN r.em ELSE em
          /\ evloop' =
                IF ~is
                THEN [evloop EXCEPT !.pc = "select", !.last = "error"]
                ELSE [evloop EXCEPT !.pc = CASE r.panic -> "panicked"
                                             [] r.err -> "fatal"
                                             [] OTHER -> "returned",
                                    !.restarts = IF c.panic THEN @ ELSE @ + 1,
                                    !.last = "ErrClosed"]
    /\ UNCHANGED <<trieVars, ruleVars, poolVars, concVars, persistVars, matchVars, feedVars, readVars, limitVars, abuseVars, packetVars, syncVars>>

(***************************************************************************)
(* The rate limiter of the API server (middleware, Limiter).  IsRateLimited*)
(* takes no lock: its reads and writes of l.ipMap and of the IPRecord are  *)
(* separate steps that interleave with those of other callers.  The model  *)
(* follows one IP address.  limiter.heap holds the IPRecord objects made   *)
(* so far and limiter.ptr is the entry of l.ipMap (0: no entry).  A write  *)
(* of the map while another caller is reading or writing it is a data race *)
(* the Go runtime may stop the process for (fatal error: concurrent map    *)
(* writes); limiter.fault says that it did.                                *)
(***************************************************************************)
\* the goroutines that call IsRateLimited once each
MaxRequests == 3
Requests == 1..MaxRequests

\* NewLimiter(100, 2), as in TestLimiterConcurrent
rateLimitRequest == 100
rateLimitInterval == 2

NewLimiter == [heap |-> <<>>, ptr |-> 0, fault |-> FALSE]

NoRequest == [pc |-> "idle", now |-> 0, ptr |-> 0, count |-> 0, result |-> FALSE]

LimitIdle ==
    /\ limiter = NewLimiter
    /\ request = [c \in Requests |-> NoRequest]

(***************************************************************************)
(* The abuse tracker of the API server (middleware/security.go), for one   *)
(* address.  Every method holds s.mu, so the calls run one after another.  *)
(* security.counter is the IPErrorCounter of the address (Count 0: none),  *)
(* security.blocked its entry in BlockList; blacklist is what saveBlockList*)
(* wrote last (NoFile: the file does not exist).                           *)
(***************************************************************************)
\* NewSecurity(dir, 3, 1), as in TestSecurity
ipErrorThreshold == 3
errorWindow == 1

\* the AddRecord calls and the seconds that pass in one behaviour
MaxHits == 4
MaxWait == 2

NoCounter == [Count |-> 0, FirstTime |-> 0, LastTime |-> 0]

NoFile == [counter |-> NoCounter, blocked |-> FALSE, exists |-> FALSE]

\* NewSecurity: empty maps, then loadBlockList, which unmarshals the file
\* into s.block when the file exists
NewSecurity(file) ==
    IF file.exists
    THEN [counter |-> file.counter, blocked |-> file.blocked, last |-> "NewSecurity"]
    ELSE [counter |-> NoCounter, blocked |-> FALSE, last |-> "NewSecurity"]

\* saveBlockList: json.Marshal(s.block) written to the file
saveBlockList(b) == [counter |-> b.counter, blocked |-> b.blocked, exists |-> TRUE]

AbuseIdle ==
    /\ blacklist = NoFile
    /\ security = NewSecurity(blacklist)
    /\ hits = <<>>

\* Security.AddRecord
AddRecord ==
    /\ Len(hits) < MaxHits
    /\ hits' = Append(hits, now)
    /\ IF security.blocked
       THEN /\ security' = [security EXCEPT !.last = "AddRecord"]
            /\ UNCHANGED blacklist
       ELSE LET old == security.counter
                record == [Count |-> old.Count + 1,
                           FirstTime |-> IF old.Count = 0 THEN now ELSE old.FirstTime,
                           LastTime |-> now]
                blocks == record.Count >= ipErrorThreshold
                             /\ now - record.FirstTime <= errorWindow
                next == [counter |-> record, blocked |-> blocks, last |-> "AddRecord"]
            IN  /\ security' = next
                /\ blacklist' = IF blocks THEN saveBlockList(next) ELSE blacklist
    /\ UNCHANGED <<trieVars, ruleVars, poolVars, concVars, persistVars, matchVars, feedVars,
                   readVars, ebpfVars, limitVars, packetVars, syncVars>>

\* Security.IsBlocked
IsBlocked == security.blocked

\* Security.cleanup, on a tick of its ticker (one every errorWindow seconds)
securityCleanup ==
    /\ now >= Epoch + errorWindow
    /\ LET stale == security.counter.Count > 0
                       /\ now - security.counter.LastTime > errorWindow
           next == [security EXCEPT !.counter = IF stale THEN NoCounter ELSE @,
                                    !.last = "cleanup"]
       IN  /\ security' = next
           /\ blacklist' = IF stale THEN saveBlockList(next) ELSE blacklist
    /\ UNCHANGED <<hits, trieVars, ruleVars, poolVars, concVars, persistVars, matchVars, feedVars,
                   readVars, ebpfVars, limitVars, packetVars, syncVars>>

\* Security.Clear
Clear ==
    /\ security' = [counter |-> NoCounter, blocked |-> FALSE, last |-> "Clear"]
    /\ blacklist' = saveBlockList(security')
    /\ hits' = <<>>
    /\ UNCHANGED <<trieVars, ruleVars, poolVars, concVars, persistVars, matchVars, feedVars,
                   readVars, ebpfVars, limitVars, packetVars, syncVars>>

\* the server starts again: NewSecurity on the same data directory
securityReload ==
    /\ security' = NewSecurity(blacklist)
    /\ hits' = <<>>
    /\ UNCHANGED <<blacklist, trieVars, ruleVars, poolVars, concVars, persistVars, matchVars,
                   feedVars, readVars, ebpfVars, limitVars, packetVars, syncVars>>

\* a second passes
Wait ==
    /\ now < Epoch + MaxWait
    /\ now' = now + 1
    /\ UNCHANGED <<rules, kmaps, windowStates, tiConfig, nextID, ruleLast, kfailed,
                   trieVars, poolVars, extVars>>

\* another caller is between two of its accesses to the limiter
Racing(c) == \E d \in Requests \ {c} : request[d].pc \in {"absent", "present", "loaded"}

\* IsRateLimited, lines 62-63: now := time.Now().Unix(); _, ok := l.ipMap[ip]
limitLookup(c) ==
    /\ ~limiter.fault
    /\ request[c].pc = "idle"
    /\ request' = [request EXCEPT ![c].pc = IF limiter.ptr = 0 THEN "absent" ELSE "present",
                                  ![c].now = now]
    /\ UNCHANGED <<limiter, trieVars, ruleVars, poolVars, concVars, persistVars, matchVars,
                   feedVars, readVars, ebpfVars, abuseVars, packetVars, syncVars>>

\* IsRateLimited, lines 64-69: l.ipMap[ip] = &IPRecord{Count: 1, LastReset: now}
limitCreate(c, faults) ==
    /\ ~limiter.fault
    /\ request[c].pc = "absent"
    /\ faults => Racing(c)
    /\ limiter' = IF faults THEN [limiter EXCEPT !.fault = TRUE]
                  ELSE [limiter EXCEPT !.heap = Append(@, [Count |-> 1, LastReset |-> request[c].now]),
                                       !.ptr = Len(limiter.heap) + 1]
    /\ request' = [request EXCEPT ![c].pc = IF faults THEN "fault" ELSE "done",
                                  ![c].result = FALSE]
    /\ UNCHANGED <<trieVars, ruleVars, poolVars, concVars, persistVars, matchVars,
                   feedVars, readVars, ebpfVars, abuseVars, packetVars, syncVars>>

\* IsRateLimited, lines 71-79: record := l.ipMap[ip]; the reset when the
\* interval is over; otherwise the load of record.Count for record.Count++
limitLoad(c) ==
    /\ ~limiter.fault
    /\ request[c].pc = "present"
    /\ LET record == limiter.heap[limiter.ptr]
           over == request[c].now - record.LastReset > rateLimitInterval
       IN  /\ limiter' = IF over
                         THEN [limiter EXCEPT !.heap[limiter.ptr] =
                                 [Count |-> 1, LastReset |-> request[c].now]]
                         ELSE limiter
           /\ request' = [request EXCEPT ![c].pc = IF over THEN "done" ELSE "loaded",
                                         ![c].ptr = limiter.ptr,
                                         ![c].count = record.Count,
                                         ![c].result = FALSE]
    /\ UNCHANGED <<trieVars, ruleVars, poolVars, concVars, persistVars, matchVars,
                   feedVars, readVars, ebpfVars, abuseVars, packetVars, syncVars>>

\* IsRateLimited, lines 79-81: the store of record.Count++ and the result
limitStore(c) ==
    /\ ~limiter.fault
    /\ request[c].pc = "loaded"
    /\ limiter' = [limiter EXCEPT !.heap[request[c].ptr].Count = request[c].count + 1]
    /\ request' = [request EXCEPT ![c].pc = "done",
                                  ![c].result = request[c].count + 1 > rateLimitRequest]
    /\ UNCHANGED <<trieVars, ruleVars, poolVars, concVars, persistVars, matchVars,
                   feedVars, readVars, ebpfVars, abuseVars, packetVars, syncVars>>

(***************************************************************************)
(* processor: processPackets, the task a worker of the pool runs on one    *)
(* record of the ring buffer.  The aggregator is not rebuilding meanwhile. *)
(***************************************************************************)
MaxPackets == 3

\* types.MatchType and types.EthernetType
MatchTypeNoMatch == 0
MatchByIP4Exact == 1
MatchByMAC == 5
EthIPv4 == 2048
EthIPv6 == 34525

\* the empty string
NoAddr == Str(<<>>, NoLen)

\* net.IP(b).String() of 4 and of 16 bytes, as the text ParseIP reads back:
\* a 16-byte address of the form ::ffff:a.b.c.d prints as a.b.c.d
IPString(words) ==
    IF Len(words) = 4 /\ words[1] = {} /\ words[2] = {} /\ words[3] = Bits(65535, 0, 16)
    THEN Str(<<words[4]>>, NoLen)
    ELSE Str(words, NoLen)

PacketInfo(eth, v4, v6, mt) == [EthProto |-> eth, SrcIP |-> v4, SrcIPv6 |-> v6, MatchType |-> mt]

\* utils.localIPs, parsed by init()
localIPNets ==
    { parseIPAddrToIPNet(c) : c \in
        { Str(IPv4(0, 0, 0, 0), 8), Str(IPv4(10, 0, 0, 0), 8), Str(IPv4(100, 64, 0, 0), 10),
          Str(IPv4(127, 0, 0, 0), 8), Str(IPv4(169, 254, 0, 0), 16), Str(IPv4(172, 16, 0, 0), 12),
          Str(IPv4(192, 0, 0, 0), 24), Str(IPv4(192, 0, 2, 0), 24), Str(IPv4(192, 88, 99, 0), 24),
          Str(IPv4(192, 168, 0, 0), 16), Str(IPv4(198, 18, 0, 0), 15), Str(IPv4(198, 51, 100, 0), 24),
          Str(IPv4(203, 0, 113, 0), 24), Str(IPv4(224, 0, 0, 0), 4), Str(IPv4(233, 252, 0, 0), 24),
          Str(IPv4(240, 0, 0, 0), 4), Str(IPv4(255, 255, 255, 255), 32) } }

\* net.IPNet.Contains of the address net.ParseIP gives (nil for no address)
IsLocalIP(ip) ==
    \E n \in localIPNets :
        /\ Len(n.Address) = Len(ip.ip)
        /\ IPMask(ip.ip, n.Netmask) = n.Address

\* Aggregator.Contains with no rebuild running
AggregatorContains(ip) ==
    IF ip = NoAddr \/ TrieSize(TrieOf(aggTrie)) < 1 THEN FALSE
    ELSE TrieContains(TrieOf(aggTrie), ip)

\* the fields of the packet the rest of processPackets reads; the GeoIP labels
\* go to the metrics only
createPacket(pi) ==
    [SrcIP |-> IF pi.EthProto = EthIPv4 THEN IPString(pi.SrcIP)
               ELSE IF pi.EthProto = EthIPv6 THEN IPString(pi.SrcIPv6)
               ELSE NoAddr,
     EthType |-> pi.EthProto,
     MatchType |-> pi.MatchType]

PacketIdle ==
    /\ collector = <<>>
    /\ pktLast = [pi |-> PacketInfo(0, <<{}>>, <<{}, {}, {}, {}>>, 0), handled |-> FALSE]

(***************************************************************************)
(* aggregator: the syncFeed calls of the cron jobs of several feeds.  The  *)
(* scheduler runs each job in a goroutine of its own, and syncFeed takes   *)
(* a.mu only around a.trie = trie, so the steps of the calls interleave.   *)
(***************************************************************************)
NoSync == [pc |-> "idle", lines |-> <<>>]

SyncIdle == syncs = [name \in Feeds |-> NoSync]

\* syncFeed of an enabled feed up to os.WriteFile
syncWrite(name, fetch) ==
    /\ syncs[name].pc = "idle"
    /\ name \in DOMAIN metadata /\ metadata[name].Enabled
    /\ ~fetch.err /\ Len(validIPs(fetch.ips)) > 0
    /\ files' = With(files, getIntelligenceFilename(name), validIPs(fetch.ips))
    /\ syncs' = [syncs EXCEPT ![name].pc = "written"]
    /\ UNCHANGED <<metadata, aggTrie, cron, jobs, feedLast, readVars,
                   trieVars, ruleVars, poolVars, concVars, persistVars, matchVars,
                   ebpfVars, limitVars, abuseVars, packetVars>>

\* aggregateIndicators, aggregator.go:164-187: the cache files of the enabled
\* feeds are read and their lines inserted into the local trie
syncAggregate(name, order) ==
    /\ syncs[name].pc = "written"
    /\ syncs' = [syncs EXCEPT ![name] = [pc |-> "built",
                                          lines |-> linesFrom(metadata, files, order, 1)]]
    /\ UNCHANGED <<feedVars, readVars,
                   trieVars, ruleVars, poolVars, concVars, persistVars, matchVars,
                   ebpfVars, limitVars, abuseVars, packetVars>>

\* aggregateIndicators, aggregator.go:189-191: a.trie = trie under a.mu, and
\* syncFeed returns
syncPublish(name) ==
    /\ syncs[name].pc = "built"
    /\ aggTrie' = syncs[name].lines
    /\ syncs' = [syncs EXCEPT ![name] = NoSync]
    /\ UNCHANGED <<metadata, files, cron, jobs, feedLast, readVars,
                   trieVars, ruleVars, poolVars, concVars, persistVars, matchVars,
                   ebpfVars, limitVars, abuseVars, packetVars>>

MoreIdle ==
    /\ EbpfIdle
    /\ LimitIdle
    /\ AbuseIdle
    /\ PacketIdle
    /\ SyncIdle

\* mutant: the packets XDP dropped are looked up as well
processPackets_noDropTest(pi, kok) ==
    LET packet == createPacket(pi)
        isLocalAndIgnored == tiConfig.IgnoreLocalNetwork /\ IsLocalIP(packet.SrcIP)
        handles == /\ packet.SrcIP # NoAddr
                   /\ ~isLocalAndIgnored
                   /\ AggregatorContains(packet.SrcIP)
    IN  /\ Len(collector) < MaxPackets
        /\ collector' = Append(collector, packet)
        /\ pktLast' = [pi |-> pi, handled |-> handles]
        /\ IF handles THEN intelMatch(packet.SrcIP, kok)
           ELSE UNCHANGED <<rules, kmaps, windowStates, nextID, ruleLast, kfailed>>
        /\ UNCHANGED <<now, tiConfig, trieVars, poolVars, concVars, persistVars, matchVars,
                       feedVars, readVars, ebpfVars, limitVars, abuseVars, syncVars>>

processPackets(pi, kok) ==
    LET packet == createPacket(pi)
        isLocalAndIgnored == tiConfig.IgnoreLocalNetwork /\ IsLocalIP(packet.SrcIP)
        handles == /\ packet.MatchType = MatchTypeNoMatch
                   /\ packet.SrcIP # NoAddr
                   /\ ~isLocalAndIgnored
                   /\ AggregatorContains(packet.SrcIP)
    IN  /\ Len(collector) < MaxPackets
        /\ collector' = Append(collector, packet)
        /\ pktLast' = [pi |-> pi, handled |-> handles]
        /\ IF handles THEN intelMatch(packet.SrcIP, kok)
           ELSE UNCHANGED <<rules, kmaps, windowStates, nextID, ruleLast, kfailed>>
        /\ UNCHANGED <<now, tiConfig, trieVars, poolVars, concVars, persistVars, matchVars,
                       feedVars, readVars, ebpfVars, limitVars, abuseVars, syncVars>>

(***************************************************************************)
(* The specifications.  Each one drives one part of the program and leaves *)
(* the other parts in their initial state.                                 *)
(***************************************************************************)
ExtIdle ==
    /\ ConcIdle
    /\ PersistIdle
    /\ MatchIdle
    /\ FeedIdle
    /\ ReadIdle
    /\ MoreIdle

TrieIdle ==
    /\ nodes = NewIPTrie
    /\ nodeCount = (v4Root :> 0) @@ (v6Root :> 0)
    /\ stored = {}
    /\ trieLast = [op |-> "none", err |-> FALSE, was |-> FALSE]

RulesIdle ==
    /\ now = Epoch
    /\ rules = <<>>
    /\ kmaps = NewMaps
    /\ windowStates = <<>>
    /\ nextID = 1
    /\ ruleLast = Last("none", 0, FALSE, <<>>, 0)
    /\ kfailed = FALSE

InitTrie ==
    /\ TrieIdle
    /\ RulesIdle
    /\ tiConfig = getDefaultConfig
    /\ NewElasticPool
    /\ ExtIdle

NextTrie ==
    \/ \E a \in TrieInputs : IPTrieInsert(a)
    \/ \E a \in TrieInputs : IPTrieRemove(a)

SpecTrie == InitTrie /\ [][NextTrie]_vars

\* the expire times the model submits: never, and one second after the start
ExpireInputs == {I64Zero, I64(Epoch + 1)}

\* the rule a caller passes to UpdateBlockRule(id, rule): it edits the value,
\* the enabled flag and the expire time of the rule it read
UpdateInput(id, v, en, ex) ==
    LET i == IndexOfID(rules, id)
    IN  BlockRule(id, v, IF i = 0 THEN BlockSourceTypeUser ELSE rules[i].Source,
                  IF i = 0 THEN Times[Epoch] ELSE rules[i].CreateTime, en, ex)

InitRules ==
    /\ TrieIdle
    /\ RulesIdle
    /\ tiConfig = getDefaultConfig
    /\ NewElasticPool
    /\ ExtIdle

\* the identifiers the callers of UpdateBlockRule and DeleteBlockRule pass
RuleIDs == 1..(MaxIDs + 1)

\* the calls of the rule API and the cleanup timer, in any order; a behaviour
\* adds at most cap rules
RulesStep(cap) ==
    \/ \E v \in RuleValues, en \in BOOLEAN, ex \in ExpireInputs, kok \in BOOLEAN :
          /\ nextID <= cap
          /\ AddBlockRule(BlockRule(0, v, BlockSourceTypeUser, Times[Epoch], en, ex), kok)
    \/ \E id \in RuleIDs, v \in RuleValues, en \in BOOLEAN, ex \in ExpireInputs, kok \in BOOLEAN :
          UpdateBlockRule(id, UpdateInput(id, v, en, ex), kok)
    \/ \E id \in RuleIDs : DeleteBlockRule(id)
    \/ \E kok \in BOOLEAN : cleanupRoutine(kok)
    \/ Tick

\* behaviours that add up to MaxIDs + 1 rules, so that two rules can hold the
\* same value
NextRules == RulesStep(MaxIDs + 1)

SpecRules == InitRules /\ [][NextRules]_vars

\* behaviours that add up to MaxIDs rules
NextOneRule == RulesStep(MaxIDs)

SpecOneRule == InitRules /\ [][NextOneRule]_vars

\* calls of AddRule and DeleteRule on the manager, in any order
NextKernel ==
    \/ \E v \in KernelValues, kok \in BOOLEAN : ManagerRule("AddRule", v, kok)
    \/ \E v \in KernelValues, kok \in BOOLEAN : ManagerRule("DeleteRule", v, kok)

SpecKernel == InitRules /\ [][NextKernel]_vars

\* the threat_intel settings the model starts from: the default, changes of
\* match_threshold, match_window and block_duration, and the match_mode values
\* 2 and 3 that a configuration file can hold
IntelConfigs ==
    { getDefaultConfig,
      [getDefaultConfig EXCEPT !.MatchThreshold = 2, !.MatchWindow = I64(1),
                               !.BlockDuration = I64Mul(Hour, I64(6))],
      [getDefaultConfig EXCEPT !.MatchThreshold = 2, !.BlockDuration = I64Zero],
      [getDefaultConfig EXCEPT !.MatchMode = 2, !.BlockDuration = I64(1)],
      [getDefaultConfig EXCEPT !.MatchMode = 3] }

InitIntel ==
    /\ TrieIdle
    /\ RulesIdle
    /\ tiConfig \in IntelConfigs
    /\ NewElasticPool
    /\ ExtIdle

NextIntel ==
    \/ \E s \in Sources, kok \in BOOLEAN :
          nextID <= MaxIDs + 1 /\ handleThreatIntelMatch(s, kok)
    \/ \E kok \in BOOLEAN : cleanupRoutine(kok)
    \/ Tick

SpecIntel == InitIntel /\ [][NextIntel]_vars

\* no packet matches and no cleanup tick falls into the next 25 hours
Sleep ==
    /\ now <= Epoch + MaxTicks
    /\ now' = now + Later
    /\ UNCHANGED <<rules, kmaps, windowStates, tiConfig, nextID, ruleLast, kfailed, trieVars, poolVars, extVars>>

\* the threat_intel settings with the default match_window of 24 hours
WindowConfigs ==
    { getDefaultConfig,
      [getDefaultConfig EXCEPT !.MatchThreshold = 2],
      [getDefaultConfig EXCEPT !.MatchThreshold = 2, !.BlockDuration = I64Zero] }

InitWindow ==
    /\ TrieIdle
    /\ RulesIdle
    /\ tiConfig \in WindowConfigs
    /\ NewElasticPool
    /\ ExtIdle

\* matches and cleanup ticks, a second or 25 hours apart
NextWindow ==
    \/ \E s \in Sources, kok \in BOOLEAN :
          nextID <= MaxIDs + 1 /\ handleThreatIntelMatch(s, kok)
    \/ \E kok \in BOOLEAN : cleanupRoutine(kok)
    \/ Tick
    \/ Sleep

SpecWindow == InitWindow /\ [][NextWindow]_vars

InitConc ==
    /\ TrieIdle
    /\ RulesIdle
    /\ tiConfig = getDefaultConfig
    /\ NewElasticPool
    /\ ExtIdle

\* API goroutines in AddBlockRule and the cleanup goroutine, step by step
NextConc ==
    \/ \E c \in Callers, v \in RuleValues, en \in BOOLEAN :
          /\ nextID <= MaxIDs + 1
          /\ AddBlockRuleLoad(c, BlockRule(0, v, BlockSourceTypeUser, Times[Epoch], en, I64Zero))
    \/ cleanupLoad
    \/ \E c \in Callers \cup {Sweeper}, kok \in BOOLEAN : updateConfigRun(c, kok)
    \/ \E c \in Callers \cup {Sweeper} : updateConfigStore(c)

SpecConc == InitConc /\ [][NextConc]_vars

\* the rule API and the cleanup timer until Close, and Close
NextPersist ==
    \/ \E v \in RuleValues, en \in BOOLEAN, ex \in ExpireInputs, kok \in BOOLEAN :
          /\ ~closed /\ nextID <= MaxIDs
          /\ AddBlockRule(BlockRule(0, v, BlockSourceTypeUser, Times[Epoch], en, ex), kok)
    \/ \E id \in RuleIDs, v \in RuleValues, en \in BOOLEAN, ex \in ExpireInputs, kok \in BOOLEAN :
          ~closed /\ UpdateBlockRule(id, UpdateInput(id, v, en, ex), kok)
    \/ \E id \in RuleIDs : ~closed /\ DeleteBlockRule(id)
    \/ \E kok \in BOOLEAN : ~closed /\ cleanupRoutine(kok)
    \/ ~closed /\ Tick
    \/ ProcessorClose

SpecPersist == InitRules /\ [][NextPersist]_vars

\* the process starts again after a shutdown: NewProcessor runs loadConfig on
\* the processor.json that Close wrote (the rule list comes back as written:
\* its fields are strings, integers and booleans), the window states start
\* empty, and ebpfManager.Start loads the XDP objects with fresh, empty maps
mainRestart ==
    /\ closed
    /\ closed' = FALSE
    /\ rules' = disk
    /\ kmaps' = NewMaps
    /\ windowStates' = <<>>
    /\ Record("NewProcessor", 0, FALSE, <<>>, 0)
    /\ UNCHANGED <<now, tiConfig, nextID, disk,
                   trieVars, poolVars, concVars, matchVars, feedVars, readVars, moreVars>>

\* the rule API, the cleanup, a shutdown and the next start of the process
NextRestart ==
    \/ \E v \in RuleValues, en \in BOOLEAN, ex \in ExpireInputs, kok \in BOOLEAN :
          /\ ~closed /\ nextID <= MaxIDs
          /\ AddBlockRule(BlockRule(0, v, BlockSourceTypeUser, Times[Epoch], en, ex), kok)
    \/ \E kok \in BOOLEAN : ~closed /\ cleanupRoutine(kok)
    \/ ~closed /\ Tick
    \/ ProcessorClose
    \/ mainRestart

SpecRestart == InitRules /\ [][NextRestart]_vars

\* threshold mode with match_threshold 2 and rules that never expire
InitMatch ==
    /\ TrieIdle
    /\ RulesIdle
    /\ tiConfig = [getDefaultConfig EXCEPT !.MatchThreshold = 2, !.BlockDuration = I64Zero]
    /\ NewElasticPool
    /\ ExtIdle

\* pool workers in handleThreatIntelMatch, step by step, the kernel calls
\* succeeding
NextMatch ==
    \/ \E w \in Matchers, s \in Sources : matched < MaxMatches /\ matchLoad(w, s)
    \/ \E w \in Matchers : matchCount(w)
    \/ \E w \in Matchers : matchCheck(w)
    \/ \E w \in Matchers : matchBlock(w, TRUE)

SpecMatch == InitMatch /\ [][NextMatch]_vars

\* "aa:bb:cc:dd:ee:ff"
\* what Fetch returns: an error, no entry, entries that parse as nothing, and
\* lists of addresses, networks, a MAC address and text that parses as nothing
AllFetchResults ==
    { [ips |-> <<>>, err |-> TRUE],
      [ips |-> <<>>, err |-> FALSE],
      [ips |-> <<Invalid>>, err |-> FALSE],
      [ips |-> <<Str(IPv4(5, 5, 5, 5), NoLen)>>, err |-> FALSE],
      [ips |-> <<Str(IPv4(10, 0, 0, 0), 8), Invalid, MACStr>>, err |-> FALSE],
      [ips |-> <<MACStr>>, err |-> FALSE] }

\* what the provider of a feed returns in the model: any of the above for
\* abuseipdb; an error, no entry or one address for spamhaus
FetchResults(name) ==
    IF name = "abuseipdb" THEN AllFetchResults
    ELSE {[ips |-> <<>>, err |-> TRUE],
          [ips |-> <<>>, err |-> FALSE],
          [ips |-> <<Str(IPv4(5, 5, 5, 5), NoLen)>>, err |-> FALSE]}

\* the orders in which metadata.Range visits the feeds
RangeOrders == {<<"abuseipdb", "spamhaus">>, <<"spamhaus", "abuseipdb">>}

\* the metadata a caller of UpdateFeedMetadata passes: for abuseipdb its
\* default schedule, enabled or not, with two params, and, enabled with the
\* default params, another valid schedule, the empty one and one that does not
\* parse; for spamhaus its defaults, enabled or not
MetadataInputs(name) ==
    IF name = "abuseipdb"
    THEN {FeedMetadata(name, DefaultSchedule(name), en, p) :
             en \in BOOLEAN, p \in {"default", "custom"}}
         \cup {FeedMetadata(name, s, TRUE, "default") : s \in {"0 * * * *", "", "bad"}}
    ELSE {FeedMetadata(name, DefaultSchedule(name), en, "default") : en \in BOOLEAN}

InitFeed ==
    /\ TrieIdle
    /\ RulesIdle
    /\ tiConfig = getDefaultConfig
    /\ NewElasticPool
    /\ ExtIdle

NextFeed ==
    \/ \E name \in Feeds, o \in RangeOrders :
          \E md \in MetadataInputs(name), f \in FetchResults(name) :
              UpdateFeedMetadata(name, md, f, o)
    \/ \E name \in Feeds : cronFire(name)
    \/ \E name \in Feeds, o \in RangeOrders :
          \E f \in FetchResults(name) : cronJob(name, f, o)

SpecFeed == InitFeed /\ [][NextFeed]_vars

\* the addresses asked of the published trie: "5.5.5.5" and "10.1.2.3"
Probes == {Str(IPv4(5, 5, 5, 5), NoLen), Str(IPv4(10, 1, 2, 3), NoLen)}

\* Initialize has stored both feeds as enabled and scheduled them; no fetch
\* has succeeded yet
InitPublish ==
    /\ TrieIdle
    /\ RulesIdle
    /\ tiConfig = getDefaultConfig
    /\ NewElasticPool
    /\ ConcIdle /\ PersistIdle /\ MatchIdle /\ ReadIdle /\ MoreIdle
    /\ metadata = [name \in Feeds |-> FeedMetadata(name, DefaultSchedule(name), TRUE, "default")]
    /\ files = <<>>
    /\ aggTrie = <<>>
    /\ cron = [name \in Feeds |-> DefaultSchedule(name)]
    /\ jobs = {}
    /\ feedLast = FeedLast("none", "", FALSE, NoMetadata, NoMetadata, NoFetch, <<>>)

\* one rebuild at a time, started by the sync of either feed, against one
\* Contains call at a time
NextPublish ==
    \/ \E name \in Feeds, o \in RangeOrders :
          \E f \in FetchResults(name) : syncFeedWrite(name, f, o)
    \/ aggregateInsert
    \/ aggregatePublish
    \/ \E ip \in Probes : ContainsSize(ip)
    \/ ContainsLocked
    \/ ContainsReturn

SpecPublish == InitPublish /\ [][NextPublish]_vars

\* what the providers return to the concurrent syncs: an older and a newer
\* list for each feed
SyncFetches(name) ==
    IF name = "abuseipdb"
    THEN {[ips |-> <<Str(IPv4(10, 0, 0, 0), 8)>>, err |-> FALSE],
          [ips |-> <<Str(IPv4(10, 0, 0, 0), 8), Str(IPv4(192, 168, 1, 1), NoLen)>>, err |-> FALSE]}
    ELSE {[ips |-> <<Str(IPv4(5, 5, 5, 5), NoLen)>>, err |-> FALSE],
          [ips |-> <<Str(IPv6(8193, 3512, 0, 1), NoLen)>>, err |-> FALSE]}

\* the cron jobs of the two feeds, each running syncFeed step by step
NextSyncs ==
    \/ \E name \in Feeds : \E f \in SyncFetches(name) : syncWrite(name, f)
    \/ \E name \in Feeds, o \in RangeOrders : syncAggregate(name, o)
    \/ \E name \in Feeds : syncPublish(name)

SpecSyncs == InitPublish /\ [][NextSyncs]_vars

InitPool ==
    /\ TrieIdle
    /\ RulesIdle
    /\ tiConfig = getDefaultConfig
    /\ NewElasticPool
    /\ ExtIdle

NextPool ==
    \/ Start
    \/ submitted < MaxTasks /\ startProducer
    \/ startMonitor
    \/ \E w \in Workers : workerBegin(w)
    \/ \E w \in Workers : workerTask(w)
    \/ \E w \in Workers : workerIdle(w)
    \/ \E w \in Workers : workerDone(w)
    \/ \E w \in Workers : workerEnd(w)
    \/ Close
    \/ monitorDone
    \/ submitClosed

SpecPool == InitPool /\ [][NextPool]_vars

\* the Go scheduler runs every goroutine that can take a step, and the ticker
\* of the monitor keeps firing: a worker that was spawned registers, a running
\* worker with a task in the queue receives one unless another worker does, a
\* worker that saw done or its idle timeout returns, and the monitor ticks.
\* After Close the monitor is woken by the closed done channel.  Nothing makes
\* the producer submit or the owner call Close.
PoolFairness ==
    /\ WF_vars(startMonitor)
    /\ WF_vars(monitorDone)
    /\ \A w \in Workers :
          /\ WF_vars(workerBegin(w))
          /\ WF_vars(workerTask(w))
          /\ WF_vars(workerDone(w))
          /\ WF_vars(workerEnd(w))

SpecPoolFair == InitPool /\ [][NextPool]_vars /\ PoolFairness

InitEbpf ==
    /\ TrieIdle
    /\ RulesIdle
    /\ tiConfig = getDefaultConfig
    /\ NewElasticPool
    /\ ExtIdle

NextEbpf ==
    \/ \E fail \in StartFailures, mode \in AttachModes : mainStart(fail, mode)
    \/ mainClose
    \/ loopSelect
    \/ \E decodes \in BOOLEAN : loopRecord(decodes)
    \/ \E is \in BOOLEAN, fail \in StartFailures, mode \in AttachModes : loopError(is, fail, mode)

SpecEbpf == InitEbpf /\ [][NextEbpf]_vars

InitLimit ==
    /\ TrieIdle
    /\ RulesIdle
    /\ tiConfig = getDefaultConfig
    /\ NewElasticPool
    /\ ExtIdle

\* the callers run IsRateLimited for the one address at the same time, within
\* MaxTicks seconds, which is less than the interval
NextLimit ==
    \/ \E c \in Requests : limitLookup(c)
    \/ \E c \in Requests, faults \in BOOLEAN : limitCreate(c, faults)
    \/ \E c \in Requests : limitLoad(c)
    \/ \E c \in Requests : limitStore(c)
    \/ Tick

SpecLimit == InitLimit /\ [][NextLimit]_vars

InitAbuse ==
    /\ TrieIdle
    /\ RulesIdle
    /\ tiConfig = getDefaultConfig
    /\ NewElasticPool
    /\ ExtIdle

NextAbuse ==
    \/ AddRecord
    \/ securityCleanup
    \/ Clear
    \/ securityReload
    \/ Wait

SpecAbuse == InitAbuse /\ [][NextAbuse]_vars

\* the records the ring buffer delivers: IPv4 packets from 5.5.5.5, from the
\* local 192.168.1.1 and from 8.8.8.8, IPv6 packets from 2001:db8::1 and from
\* ::ffff:5.5.5.5, an ARP frame, and packets XDP matched by address and by MAC
PacketInfos ==
    LET none == <<{}, {}, {}, {}>>
    IN  { PacketInfo(EthIPv4, IPv4(5, 5, 5, 5), none, MatchTypeNoMatch),
          PacketInfo(EthIPv4, IPv4(5, 5, 5, 5), none, MatchByIP4Exact),
          PacketInfo(EthIPv4, IPv4(192, 168, 1, 1), none, MatchTypeNoMatch),
          PacketInfo(EthIPv4, IPv4(192, 168, 1, 1), none, MatchByMAC),
          PacketInfo(EthIPv4, IPv4(8, 8, 8, 8), none, MatchTypeNoMatch),
          PacketInfo(EthIPv6, <<{}>>, IPv6(8193, 3512, 0, 1), MatchTypeNoMatch),
          PacketInfo(EthIPv6, <<{}>>, <<{}, {}, Bits(65535, 0, 16), IPv4(5, 5, 5, 5)[1]>>, MatchTypeNoMatch),
          PacketInfo(2054, IPv4(5, 5, 5, 5), none, MatchTypeNoMatch) }   \* EtherType 0x0806

\* the lines of the trie the aggregator has published: none yet, or the
\* addresses and networks of the cache files
PublishedLines ==
    { <<>>,
      <<Str(IPv4(5, 5, 5, 5), NoLen), Str(IPv4(192, 168, 0, 0), 16)>>,
      <<Str(IPv6(8193, 3512, 0, 0), 32)>> }

\* the threat_intel settings: the default, and local sources not ignored
\* with a rule at the first match
PacketConfigs ==
    { getDefaultConfig,
      [getDefaultConfig EXCEPT !.MatchThreshold = 2],
      [getDefaultConfig EXCEPT !.IgnoreLocalNetwork = FALSE, !.MatchThreshold = 1] }

InitPackets ==
    /\ TrieIdle
    /\ RulesIdle
    /\ tiConfig \in PacketConfigs
    /\ NewElasticPool
    /\ ConcIdle /\ PersistIdle /\ MatchIdle /\ ReadIdle /\ MoreIdle
    /\ metadata = GenerateFeedsMetadata
    /\ files = <<>>
    /\ aggTrie \in PublishedLines
    /\ cron = <<>>
    /\ jobs = {}
    /\ feedLast = FeedLast("none", "", FALSE, NoMetadata, NoMetadata, NoFetch, <<>>)

\* the workers run processPackets on the records, one call after another
NextPackets ==
    \/ \E pi \in PacketInfos, kok \in BOOLEAN : processPackets(pi, kok)
    \/ Tick

SpecPackets == InitPackets /\ [][NextPackets]_vars

\* ghost: ip is covered by a network inserted and not removed since
Covered(ip) ==
    \E n \in stored :
        /\ Len(n.Address) = Len(ip)
        /\ IPMask(ip, n.Netmask) = n.Address

C5_NotContainsUncovered ==
    /\ \A a \in TrieAddrs : ~Covered(a) => ~IPTrieContains(nodes, Str(a, NoLen))
    /\ \A n \in stored : IPTrieContains(nodes, Str(n.Address, NoLen))

\* Insert(x); Remove(x) has left x uncovered while other networks are stored
C5_Witness ==
    /\ trieLast.op = "Remove" /\ trieLast.was /\ ~trieLast.err
    /\ ~Covered(IPv4(10, 1, 2, 3)) /\ ~Covered(IPv6(8193, 3512, 0, 1))
    /\ Covered(IPv4(192, 168, 1, 1)) /\ Covered(IPv6(8193, 3512, 1, 7))

\* C6: Size() equals the number of stored networks and is never negative:
\* it changes only on a non-duplicate insert and on a removal that removed
C6_SizeIsLeafCount ==
    IPTrieSize = Cardinality(stored) /\ IPTrieSize >= 0

(***************************************************************************)
(* Properties of the block-rule engine.                                    *)
(***************************************************************************)
\* the key of value is in the kernel map ParseValueToBytes files it in
InKernel(km, value) ==
    LET p == Parsed[value]
    IN  ~p.err /\ p.bytes \in km[p.iptype]

\* a call of fn for value is among the kernel calls of the last operation
Issued(last, fn, value) ==
    \E k \in 1..Len(last.calls) : last.calls[k].fn = fn /\ last.calls[k].value = value

AllSucceeded(last) == \A k \in 1..Len(last.calls) : ~last.calls[k].err

\* the rule list and the kernel maps agree: the value of every effective rule
\* is in the kernel map of its type, and the value of every disabled or expired
\* rule is in no kernel map unless an effective rule has the same value
KernelMatchesRules(rs, km, t) ==
    \A i \in 1..Len(rs) :
        IF Effective(rs[i], t) THEN InKernel(km, rs[i].Value)
        ELSE InKernel(km, rs[i].Value) =>
                 \E j \in 1..Len(rs) : Effective(rs[j], t) /\ rs[j].Value = rs[i].Value

\* C1: after any sequence of AddBlockRule, UpdateBlockRule, DeleteBlockRule and
\* cleanup sweeps in which no kernel call failed, the value of every effective
\* rule of the list is in the kernel map of its type and the value of every
\* disabled or expired rule of the list is in no kernel map
C1_KernelMatchesRules ==
    [][(now' = now /\ ~kfailed') => KernelMatchesRules(rules', kmaps', now')]_vars

\* C7: DeleteBlockRule(id) of an effective rule issues a kernel delete for its
\* value and removes the rule, so that the value is in no kernel map afterwards
\* unless another effective rule has the same value; on an unknown id it returns
\* an error and changes nothing
C7_DeleteIssuesKernelDelete ==
    [][\A id \in RuleIDs :
          DeleteBlockRule(id) =>
              LET i == IndexOfID(rules, id)
              IN  IF i = 0
                  THEN ruleLast'.err /\ rules' = rules /\ kmaps' = kmaps
                  ELSE /\ ~ruleLast'.err
                       /\ rules' = RemoveAt(rules, i)
                       /\ Effective(rules[i], now) =>
                             /\ Issued(ruleLast', "DeleteRule", rules[i].Value)
                             /\ (\A j \in 1..Len(rules') :
                                    ~(Effective(rules'[j], now) /\ rules'[j].Value = rules[i].Value))
                                => ~InKernel(kmaps', rules[i].Value)]_vars

\* C8: a cleanup sweep whose kernel deletes succeed removes every rule that has
\* expired from the list and, if the rule was enabled, its value from the kernel
\* map; it leaves every rule that has not expired in the list and, if the rule
\* is enabled, its value in the kernel map
C8_SweepRemovesExpiredOnly ==
    [][\A kok \in BOOLEAN :
          (cleanupRoutine(kok) /\ AllSucceeded(ruleLast')) =>
              \A i \in 1..Len(rules) :
                  IF Expired(rules[i], now)
                  THEN /\ IndexOfID(rules', rules[i].ID) = 0
                       /\ rules[i].Enabled => ~InKernel(kmaps', rules[i].Value)
                  ELSE /\ IndexOfID(rules', rules[i].ID) # 0
                       /\ (rules[i].Enabled /\ InKernel(kmaps, rules[i].Value))
                          => InKernel(kmaps', rules[i].Value)]_vars

\* C9: when a successful UpdateBlockRule disables an enabled, unexpired rule and
\* the next call, a successful UpdateBlockRule, enables it again, the value kept
\* and the rule unexpired, then the value is in the kernel map after the second
\* update as it was before the first, and it is in no kernel map in between
C9_ToggleRestoresKernel ==
    ruleLast.toggle # 0 =>
        LET value == rules[IndexOfID(rules, ruleLast.id)].Value
        IN  /\ ruleLast.toggle = 1 => ~InKernel(kmaps, value)
            /\ ruleLast.toggle = 2 => InKernel(kmaps, value)

\* a rule has been switched off and on again by two updates
C9_Witness ==
    /\ ruleLast.op = "UpdateBlockRule" /\ ruleLast.toggle = 2
    /\ Issued(ruleLast, "AddRule", rules[IndexOfID(rules, ruleLast.id)].Value)
    /\ InKernel(kmaps, rules[IndexOfID(rules, ruleLast.id)].Value)

\* C10: when a rule whose expire time has passed is added as enabled, or is
\* switched from disabled to enabled by UpdateBlockRule, no kernel add is issued
\* and the rule is in the list with enabled = false
C10_ExpiredIsAutoDisabled ==
    [][/\ \A v \in RuleValues, ex \in ExpireInputs, kok \in BOOLEAN :
             LET rule == BlockRule(0, v, BlockSourceTypeUser, Times[Epoch], TRUE, ex)
             IN  (Expired(rule, now) /\ AddBlockRule(rule, kok)) =>
                     /\ ruleLast'.calls = <<>>
                     /\ Len(rules') = Len(rules) + 1
                     /\ ~rules'[Len(rules')].Enabled
       /\ \A id \in RuleIDs, v \in RuleValues, ex \in ExpireInputs, kok \in BOOLEAN :
             LET i == IndexOfID(rules, id)
                 rule == UpdateInput(id, v, TRUE, ex)
             IN  (/\ i # 0 /\ ~rules[i].Enabled
                  /\ Expired(rule, now)
                  /\ UpdateBlockRule(id, rule, kok)) =>
                     /\ ruleLast'.calls = <<>>
                     /\ ~rules'[i].Enabled]_vars

(***************************************************************************)
(* Properties of the threat-intelligence matches.                          *)
(***************************************************************************)
\* C4: in Threshold mode, matches of one source handled one after another in
\* one match window: a match that leaves the count below match_threshold
\* installs no rule and issues no kernel call, and the match that brings the
\* count to match_threshold installs exactly one rule, enabled, with the source
\* address as value and source Intel, and issues one kernel add for that value
C4_ThresholdInstallsOneRule ==
    [][\A s \in Sources :
          (/\ tiConfig.MatchMode = MatchActionModeThreshold
           /\ handleThreatIntelMatch(s, TRUE)) =>
              IF windowStates'[s].Count < tiConfig.MatchThreshold
              THEN rules' = rules /\ ruleLast'.calls = <<>>
              ELSE windowStates'[s].Count = tiConfig.MatchThreshold =>
                      /\ Len(rules') = Len(rules) + 1
                      /\ SubSeq(rules', 1, Len(rules)) = rules
                      /\ rules'[Len(rules')].Enabled
                      /\ rules'[Len(rules')].Value = s
                      /\ rules'[Len(rules')].Source = BlockSourceTypeIntel
                      /\ ruleLast'.calls = <<[fn |-> "AddRule", value |-> s, err |-> FALSE]>>]_vars

(***************************************************************************)
(* Properties of the elastic pool.                                         *)
(***************************************************************************)
\* C3: from Start until Close, once the workers that Start launched have
\* registered, the worker count is at least MinWorkers and at most MaxWorkers
C3_WorkerCountInRange ==
    (/\ started /\ ~done
     /\ \A w \in 1..MinWorkers : worker[w] # "spawned") =>
        (MinWorkers <= workerCount /\ workerCount <= MaxWorkers)

(***************************************************************************)
(* Properties of the rule list under concurrent callers.                   *)
(***************************************************************************)
\* no goroutine is inside updateConfig
Quiescent == \A c \in Callers \cup {Sweeper} : upd[c].pc = "idle"

\* C11: when AddBlockRule calls and the cleanup sweep have run concurrently and
\* all have returned, every rule whose AddBlockRule returned nil is in the rule
\* list, and every value in a kernel map is the value of an enabled rule of the
\* list
C11_UpdatesSerialised ==
    Quiescent =>
        /\ \A id \in acked : IndexOfID(rules, id) # 0
        /\ \A v \in RuleValues :
              InKernel(kmaps, v) => \E i \in 1..Len(rules) : rules[i].Value = v /\ rules[i].Enabled

(***************************************************************************)
(* Properties of the configuration file.                                   *)
(***************************************************************************)
\* C12: when AddBlockRule, UpdateBlockRule or DeleteBlockRule returns nil, the
\* rule list in <data>/processor.json equals the rule list in memory
C12_ListIsPersisted ==
    [][(/\ \/ \E v \in RuleValues, en \in BOOLEAN, ex \in ExpireInputs, kok \in BOOLEAN :
              AddBlockRule(BlockRule(0, v, BlockSourceTypeUser, Times[Epoch], en, ex), kok)
           \/ \E id \in RuleIDs, v \in RuleValues, en \in BOOLEAN, ex \in ExpireInputs,
                 kok \in BOOLEAN : UpdateBlockRule(id, UpdateInput(id, v, en, ex), kok)
           \/ \E id \in RuleIDs : DeleteBlockRule(id)
        /\ ~ruleLast'.err)
       => disk' = rules']_vars

(***************************************************************************)
(* Properties of the match windows under concurrent workers.               *)
(***************************************************************************)
\* the enabled rules of the list for this value
EnabledFor(value) == {i \in 1..Len(rules) : rules[i].Value = value /\ rules[i].Enabled}

\* C13: when all handleThreatIntelMatch calls for a source have returned (the
\* window not over, the kernel calls succeeding), the Count of the source's
\* WindowState is the number of calls, and the list holds one enabled rule for
\* the source if that number has reached match_threshold and none otherwise
C13_MatchesCountedOnce ==
    (\A w \in Matchers : matcher[w].pc = "idle") =>
        \A s \in Sources :
            /\ matched > 0 => (s \in DOMAIN windowStates /\ windowStates[s].Count = matched)
            /\ Cardinality(EnabledFor(s)) = IF matched >= tiConfig.MatchThreshold THEN 1 ELSE 0

(***************************************************************************)
(* Properties of the aggregator.                                           *)
(***************************************************************************)
\* the string parses as an IPv4 or IPv6 address or CIDR
IsIndicator(s) ==
    ParseStringToIPType(s) \in {IPTypeIPv4, IPTypeIPV4CIDR, IPTypeIPv6, IPTypeIPv6CIDR}

Indicators(ips) == SelectSeq(ips, IsIndicator)

\* the number of times the event is in the log
Count(log, event) == Cardinality({i \in DOMAIN log : log[i] = event})

\* some line of the cache file of an enabled feed other than name is a network
\* that holds the address of the string s
FromOtherFeed(md, fs, name, s) ==
    \E other \in DOMAIN md \ {name} :
        /\ md[other].Enabled
        /\ getIntelligenceFilename(md[other].Name) \in DOMAIN fs
        /\ \E i \in DOMAIN fs[getIntelligenceFilename(md[other].Name)] :
              LET n == parseIPAddrToIPNet(fs[getIntelligenceFilename(md[other].Name)][i])
              IN  n # NoNet /\ NetworkContains(n, parseIPAddrToIPNet(s).Address)

\* the feed has metadata that says enabled
FeedEnabled(name) == name \in DOMAIN metadata /\ metadata[name].Enabled

\* the step is a run of syncFeed(name) by a cron job: cronJob takes the name
\* out of jobs, and no other action does
IsCronJob(name) == name \in jobs /\ jobs' = jobs \ {name}

\* the step is a call of UpdateFeedMetadata(name, _) that found metadata of
\* the feed; UpdateFeedMetadata is the only action that leaves jobs as it is
IsUpdate(name) ==
    /\ name \in DOMAIN metadata
    /\ jobs' = jobs
    /\ feedLast'.op = "UpdateFeedMetadata"
    /\ feedLast'.name = name

\* C14: after a sync of an enabled feed whose fetch returned at least one
\* IPv4/IPv6 address or CIDR, the cache file of the feed holds exactly the
\* fetched entries that parse as such, in their order, and the published trie
\* contains each of them
C14_CacheHoldsIndicatorsOnly ==
    [][\A name \in Feeds :
          LET f == feedLast'.fetch
          IN  (/\ IsCronJob(name)
               /\ FeedEnabled(name)
               /\ ~f.err /\ Len(Indicators(f.ips)) > 0)
              => /\ getIntelligenceFilename(name) \in DOMAIN files'
                 /\ files'[getIntelligenceFilename(name)] = Indicators(f.ips)
                 /\ \A i \in DOMAIN Indicators(f.ips) :
                       TrieContains(TrieOf(aggTrie'), Indicators(f.ips)[i])]_vars

\* C15: the result of a Contains call is the answer of a complete trie that
\* a.trie held at some time during the call (the one published before it or
\* one a rebuild published meanwhile, each built from all lines of the cache
\* files), and it is false when the trie the call found first is empty
C15_ReaderSeesCompleteTrie ==
    reader.pc = "done" =>
        /\ \E t \in observed : reader.result = TrieContains(TrieOf(t), reader.ip)
        /\ TrieSize(TrieOf(reader.first)) < 1 => ~reader.result

\* a Contains call has passed the Size test on the old trie, a rebuild has
\* published a trie with another answer, and the call has returned that answer
C15_Witness ==
    /\ reader.pc = "done"
    /\ reader.result
    /\ Cardinality(observed) > 1
    /\ \E t \in observed : ~TrieContains(TrieOf(t), reader.ip)
    /\ TrieContains(TrieOf(aggTrie), reader.ip)

\* C16: a successful UpdateFeedMetadata calls syncFeed once, and adds the cron
\* entry, when the feed goes from disabled to enabled; calls it once, and
\* replaces the cron entry, when the schedule changes of a feed that stays
\* enabled; calls it once, and touches no cron entry, when only the params
\* change of a feed that stays enabled; and does nothing but store the
\* metadata when the feed stays enabled with the same schedule and params or
\* stays disabled
C16_SyncOnRelevantChange ==
    [][\A name \in Feeds :
          (IsUpdate(name) /\ ~feedLast'.err) =>
              LET old == metadata[name]
                  md == feedLast'.new
                  log == feedLast'.log
              IN  IF ~old.Enabled /\ md.Enabled
                  THEN /\ Count(log, "syncFeed") = 1 /\ Count(log, "cron.AddFunc") = 1
                       /\ name \in DOMAIN cron' /\ cron'[name] = md.Schedule
                  ELSE IF old.Enabled /\ md.Enabled /\ old.Schedule # md.Schedule
                  THEN /\ Count(log, "syncFeed") = 1 /\ Count(log, "cron.AddFunc") = 1
                       /\ name \in DOMAIN cron' /\ cron'[name] = md.Schedule
                  ELSE IF old.Enabled /\ md.Enabled /\ old.Params # md.Params
                  THEN /\ Count(log, "syncFeed") = 1
                       /\ Count(log, "cron.AddFunc") = 0 /\ Count(log, "cron.Remove") = 0
                       /\ cron' = cron
                  ELSE IF md.Enabled \/ ~old.Enabled
                  THEN /\ log = <<>> /\ cron' = cron /\ files' = files /\ aggTrie' = aggTrie
                       /\ metadata' = With(metadata, name, md)
                  ELSE Count(log, "syncFeed") = 0]_vars

\* only the params of an enabled feed have changed, and the sync that followed
\* has written the cache file
C16_Witness ==
    /\ feedLast.op = "UpdateFeedMetadata" /\ ~feedLast.err
    /\ feedLast.old.Enabled /\ feedLast.new.Enabled
    /\ feedLast.old.Schedule = feedLast.new.Schedule
    /\ feedLast.old.Params # feedLast.new.Params
    /\ Count(feedLast.log, "syncFeed") = 1 /\ Count(feedLast.log, "write") = 1

C18_FailedSyncKeepsCache ==
    [][\A name \in Feeds :
          LET f == feedLast'.fetch
          IN  (/\ IsCronJob(name)
               /\ FeedEnabled(name)
               /\ (f.err \/ Len(Indicators(f.ips)) = 0))
              => files' = files /\ TrieOf(aggTrie') = TrieOf(aggTrie)]_vars

\* C19: the queue and the workers neither drop nor repeat an item (the items
\* accepted are those processed and those still queued), and, while the pool
\* is not closed, the n-th item the queue accepted is eventually processed
C19_EveryItemProcessed ==
    /\ [](processed + taskQueue = submitted)
    /\ \A n \in 1..MaxTasks : (submitted >= n) ~> (processed >= n \/ done)

\* the slots the step starts a worker goroutine in
Spawns == {w \in Workers : worker[w] = "none" /\ worker'[w] = "spawned"}

\* the condition of startMonitor for one more worker
ScaleUp == taskQueue > QueueSize \div 2 /\ workerCount < MaxWorkers

IdleExits == {w \in Workers : ~done /\ worker[w] = "running" /\ worker'[w] = "leaving"}

\* C21: a worker returns on its idle timeout only when it read a worker count
\* above MinWorkers; after the initial workers have registered the count never
\* goes below MinWorkers while the pool is open; and, when the idle timers
\* keep firing, an empty queue leads to a count of exactly MinWorkers unless
\* work arrives or the pool is closed
C21_IdleExitKeepsMinWorkers ==
    /\ [][IdleExits # {} => workerCount > MinWorkers]_vars
    /\ []((/\ started /\ ~done
           /\ \A w \in 1..MinWorkers : worker[w] # "spawned") => workerCount >= MinWorkers)
    /\ (\A w \in Workers : WF_vars(workerIdle(w))) =>
          ((started /\ ~done /\ taskQueue = 0)
              ~> (workerCount = MinWorkers \/ taskQueue > 0 \/ done))

\* the workers that are inside their select loop
Running == {w \in Workers : worker[w] = "running"}

\* the step is a processor call that panics
Panics == panicked' = panicked + 1

\* the worker count never falls below MinWorkers once the initial workers
\* have registered (the behaviours without the idle race of C3)
KeepsMinWorkers ==
    [](\/ ~started
       \/ \E w \in 1..MinWorkers : worker[w] = "spawned"
       \/ workerCount >= MinWorkers)

\* a worker inside its select loop with a task in the queue takes a task
\* again and again: select picks among its ready cases at random
TaskChosen == \A w \in Workers : SF_vars(workerTask(w))

\* C22: a processor call that panics leaves the worker count and the set of
\* workers inside their loop as they are and ends no worker; no task is lost
\* or taken twice, whether or not tasks panic; and the n-th submitted task is
\* eventually taken, panics or not, while the pool stays open with at least
\* MinWorkers workers
C22_PanicKeepsWorker ==
    /\ [][Panics => /\ workerCount' = workerCount
                    /\ worker' = worker
                    /\ processed' = processed + 1
                    /\ taskQueue' = taskQueue - 1]_vars
    /\ [](processed + taskQueue = submitted /\ panicked <= processed)
    /\ (TaskChosen /\ KeepsMinWorkers) =>
          \A n \in 1..MaxTasks : (submitted >= n) ~> (processed >= n \/ done)

\* a task panicked, the worker that ran it is still counted and has gone on
\* to take a later task
C22_Witness ==
    /\ ~done
    /\ panicked >= 1
    /\ processed > panicked
    /\ processed = submitted
    /\ workerCount = MinWorkers
    /\ Running = 1..MinWorkers

\* every goroutine of the pool has returned
Terminated ==
    /\ monitor = "ended"
    /\ \A w \in Workers : worker[w] = "none"
    /\ workerCount = 0

\* C23: after Close no worker goroutine is started, a call of submit returns
\* (it neither waits for ever nor faults), and the monitor and all workers
\* terminate, with the worker count back at 0; tasks may stay in the queue
C23_CloseTerminates ==
    /\ [][done => Spawns = {}]_vars
    /\ [](done => producer # "panicked")
    /\ done ~> Terminated

\* the step in which em.reader.Read() reports the closed reader to the loop
ClosedReported ==
    /\ evloop.pc = "read"
    /\ em.reader = "closed"
    /\ evloop'.pc # "read"

\* C24: when Read reports the closed reader the loop runs the restart (Close,
\* then Start) exactly once and then is no longer running: it has returned
\* after a successful restart or the process has ended with the fatal error
C24_ClosedRingRestartsOnce ==
    [][ClosedReported => /\ evloop'.restarts = evloop.restarts + 1
                         /\ evloop'.pc \in {"returned", "fatal"}]_vars

\* the kernel map of the kind of a value, by the form of the value
KindOf(v) ==
    IF "mac" \in DOMAIN v THEN IPTypeMAC
    ELSE IF Len(v.ip) = 1
    THEN IF v.len = NoLen THEN IPTypeIPv4 ELSE IPTypeIPV4CIDR
    ELSE IF v.len = NoLen THEN IPTypeIPv6 ELSE IPTypeIPv6CIDR

\* the key of a value: the 6 bytes of a MAC address, the 4 or 16 bytes of an
\* address, the prefix length and the 4 or 16 bytes of a network
KeyOf(v) ==
    IF "mac" \in DOMAIN v THEN v.mac
    ELSE IF v.len = NoLen THEN v.ip
    ELSE [ones |-> v.len, ip |-> parseIPAddrToIPNet(v).Address]

\* the step is a call fn(v) on the manager that returned nil
ManagerCall(fn, v) ==
    /\ ruleLast' # ruleLast \/ kmaps' # kmaps
    /\ ruleLast'.op = fn
    /\ ruleLast'.calls = <<[fn |-> fn, value |-> v, err |-> FALSE]>>

\* C25: a successful AddRule(v) puts the key of v into the map of v's kind and
\* a successful DeleteRule(v) takes it out, and neither changes anything else;
\* DeleteRule(v) after AddRule(v) gives back the maps from before, when v was
\* not in them
C25_RuleGoesToMapOfItsKind ==
    /\ [][\A v \in KernelValues :
            /\ ManagerCall("AddRule", v) =>
                  kmaps' = [kmaps EXCEPT ![KindOf(v)] = @ \cup {KeyOf(v)}]
            /\ ManagerCall("DeleteRule", v) =>
                  /\ KeyOf(v) \in kmaps[KindOf(v)]
                  /\ kmaps' = [kmaps EXCEPT ![KindOf(v)] = @ \ {KeyOf(v)}]]_vars
    /\ [](\A v \in KernelValues :
            Parsed[v].bytes \notin kmaps[Parsed[v].iptype] =>
               DeleteRule(AddRule(kmaps, v, TRUE).km, v, TRUE).km = kmaps)

\* every caller has returned from IsRateLimited or the process has stopped
AllReturned == \A c \in Requests : request[c].pc \in {"done", "fault"}

\* C26: when the concurrent calls for the one address are over, none has
\* faulted and the record of the address in l.ipMap counts every call
C26_ConcurrentCountExact ==
    AllReturned =>
        /\ ~limiter.fault
        /\ \A c \in Requests : request[c].pc = "done"
        /\ limiter.ptr # 0
        /\ limiter.heap[limiter.ptr].Count = MaxRequests

\* ipErrorThreshold AddRecord calls of this manager fall within errorWindow
\* seconds of one another
ThresholdReached ==
    \E i \in 1..Len(hits) :
       /\ i + ipErrorThreshold - 1 <= Len(hits)
       /\ hits[i + ipErrorThreshold - 1] - hits[i] <= errorWindow

\* C27: the address is blocked once ipErrorThreshold AddRecord calls lie
\* within errorWindow seconds; it becomes blocked only by an AddRecord call
\* that completes such a run of calls; and a blocked address stays blocked
\* through every step but Clear, a restart that reloads the file included
C27_BlockedAtThresholdUntilClear ==
    /\ [](ThresholdReached => IsBlocked)
    /\ [][(~security.blocked /\ security'.blocked /\ security'.last # "NewSecurity")
             => (security'.last = "AddRecord" /\ ThresholdReached')]_vars
    /\ [][(security.blocked /\ security'.last # "Clear") => security'.blocked]_vars

\* the nodes that can be reached from the two roots, the roots left out
Inner ==
    {Preorder(nodes, v4Root)[i] : i \in 2..Len(Preorder(nodes, v4Root))}
        \cup {Preorder(nodes, v6Root)[i] : i \in 2..Len(Preorder(nodes, v6Root))}

\* C28: after a Remove every node below a root that is not a leaf has two
\* children: no path node with one child or none is left in the trie
C28_RemoveLeavesNoLonePath ==
    trieLast.op = "Remove" =>
        \A q \in Inner : ~nodes[q].isLeaf => getChildCount(nodes[q]) >= 2


\* C30: while the match mode is Monitor no kernel map holds an entry and the
\* rule list holds no enabled rule, however many matches were handled
C30_MonitorRecordsOnly ==
    tiConfig.MatchMode = MatchActionModeMonitor =>
        /\ kmaps = NewMaps
        /\ \A i \in 1..Len(rules) : ~rules[i].Enabled


\* the source of the last record, as processPackets sees it
LastSource == createPacket(pktLast.pi).SrcIP

\* a line of the published trie is the address, or a network that holds it
InPublishedTrie(src) ==
    \E k \in 1..Len(aggTrie) :
        LET n == parseIPAddrToIPNet(aggTrie[k])
        IN  /\ Len(n.Address) = Len(src.ip)
            /\ IPMask(src.ip, n.Netmask) = n.Address

\* C29: every record processed is in the metrics collector, in order, and
\* handleThreatIntelMatch was called (rules, kernel maps and windows change)
\* only on a record with match type None whose source is not empty, not a
\* local address while ignore_local_network is set, and in the published trie
C29_ForwardedAndMatchedOnlyWhenListed ==
    /\ [][(pktLast' # pktLast \/ collector' # collector) =>
              /\ Len(collector') = Len(collector) + 1
              /\ collector'[Len(collector')].MatchType = pktLast'.pi.MatchType
              /\ collector'[Len(collector')].EthType = pktLast'.pi.EthProto
              /\ SubSeq(collector', 1, Len(collector)) = collector]_vars
    /\ [][(rules' # rules \/ kmaps' # kmaps \/ windowStates' # windowStates \/ nextID' # nextID)
              => pktLast'.handled]_vars
    /\ [](pktLast.handled =>
              /\ pktLast.pi.MatchType = MatchTypeNoMatch
              /\ pktLast.pi.EthProto \in {EthIPv4, EthIPv6}
              /\ LastSource # NoAddr
              /\ ~(tiConfig.IgnoreLocalNetwork /\ IsLocalIP(LastSource))
              /\ InPublishedTrie(LastSource))

\* three records are in the collector: one XDP had dropped, one from a local
\* source that was passed over, and one whose source is listed and for which
\* a rule was installed
C29_Witness ==
    /\ Len(collector) = 3
    /\ \E k \in 1..2 : collector[k].MatchType # MatchTypeNoMatch
    /\ \E k \in 1..2 : collector[k].MatchType = MatchTypeNoMatch /\ IsLocalIP(collector[k].SrcIP)
    /\ pktLast.handled
    /\ Len(rules) = 1 /\ rules[1].Value = LastSource


(***************************************************************************)
(* Properties of the intel matches, the packet path and the restart.       *)
(***************************************************************************)
\* C31: every rule handleThreatIntelMatch installed has expire_time 0 when
\* block_duration is 0, and otherwise expire_time is create_time plus
\* block_duration, the stored number read as seconds or as a time.Duration,
\* and is later than create_time
C31_ExpireIsNowPlusDuration ==
    \A i \in 1..Len(rules) :
        IF tiConfig.BlockDuration = I64Zero
        THEN rules[i].ExpireTime = I64Zero
        ELSE /\ \/ rules[i].ExpireTime = I64Add(rules[i].CreateTime, tiConfig.BlockDuration)
                \/ rules[i].ExpireTime = UnixAfter(rules[i].CreateTime, tiConfig.BlockDuration)
             /\ I64Less(rules[i].CreateTime, rules[i].ExpireTime)


\* a step in which handleThreatIntelMatch counted a match of s in threshold mode
CountedMatch(s) ==
    /\ tiConfig.MatchMode = MatchActionModeThreshold
    /\ s \in DOMAIN windowStates'
    /\ (s \notin DOMAIN windowStates \/ windowStates'[s] # windowStates[s])

\* C32: in threshold mode a match that leaves the count of its source below
\* match_threshold appends one rule for the source, not enabled and with
\* source Intel, and makes no kernel call
C32_BelowThresholdInstallsDisabledRule ==
    [][\A s \in Sources :
          (CountedMatch(s) /\ windowStates'[s].Count < tiConfig.MatchThreshold) =>
              /\ Len(rules') = Len(rules) + 1
              /\ SubSeq(rules', 1, Len(rules)) = rules
              /\ ~rules'[Len(rules')].Enabled
              /\ rules'[Len(rules')].Value = s
              /\ rules'[Len(rules')].Source = BlockSourceTypeIntel
              /\ ruleLast'.calls = <<>>]_vars


\* first_time lies more than match_window, a time.Duration, before now
Elapsed(state) == I64Less(I64Seconds(tiConfig.MatchWindow), I64(now - state.FirstTime))

\* C33: a match of a source whose window state is older than match_window
\* sets the state to (1, now), and after a cleanup sweep no state older than
\* match_window is left
C33_OldMatchesDoNotCount ==
    /\ [][\A s \in Sources :
             (CountedMatch(s) /\ s \in DOMAIN windowStates /\ Elapsed(windowStates[s])) =>
                 windowStates'[s] = WindowState(1, now)]_vars
    /\ [][(ruleLast' # ruleLast /\ ruleLast'.op = "cleanupRoutine") =>
             \A s \in DOMAIN windowStates' : ~Elapsed(windowStates'[s])]_vars


\* C34: a call of submit made once Close has closed the channels returns: the
\* producer goroutine never faults, and the call adds nothing to the queue
C34_SubmitAfterCloseReturns ==
    /\ [](producer # "panicked")
    /\ [][(done /\ producer' # producer) =>
             /\ producer' = "returned"
             /\ taskQueue' = taskQueue
             /\ submitted' = submitted]_vars


C37_CronEntryIffEnabled ==
    /\ [](\A name \in Feeds :
             name \in DOMAIN cron <=> (name \in DOMAIN metadata /\ metadata[name].Enabled))
    /\ [][(feedLast' # feedLast /\ feedLast'.op = "UpdateFeedMetadata" /\ feedLast'.err) =>
             metadata' = metadata /\ cron' = cron]_vars


\* Aggregator.GetFeedMetadata on the stored metadata md; NoMetadata stands for nil
GetFeedMetadata(md, name) == IF name \in DOMAIN md THEN md[name] ELSE NoMetadata

\* C38: after an UpdateFeedMetadata(name, m) that returned nil GetFeedMetadata
\* gives m, also when m disables the feed, so every registered feed keeps its
\* metadata and can be enabled again
C38_UpdateStoresMetadata ==
    /\ [][\A name \in Feeds :
             (IsUpdate(name) /\ feedLast' # feedLast /\ ~feedLast'.err) =>
                 GetFeedMetadata(metadata', name) = feedLast'.new]_vars
    /\ [](\A name \in Feeds : name \in DOMAIN metadata)


\* the lines of the cache files of the feeds that are enabled now
CachedLines ==
    UNION { {files[getIntelligenceFilename(metadata[name].Name)][i] :
                i \in DOMAIN files[getIntelligenceFilename(metadata[name].Name)]} :
            name \in {n \in DOMAIN metadata :
                         /\ metadata[n].Enabled
                         /\ getIntelligenceFilename(metadata[n].Name) \in DOMAIN files} }

\* C39: when no sync is running the published trie was built from exactly
\* the indicators in the cache files of the enabled feeds
C39_PublishedTrieIsNewest ==
    (\A name \in Feeds : syncs[name].pc = "idle") =>
        {aggTrie[i] : i \in DOMAIN aggTrie} = CachedLines


\* C40: when the process has started on an existing processor.json, every
\* effective rule of the loaded list has its value in a kernel map
C40_RulesSurviveRestart ==
    ruleLast.op = "NewProcessor" =>
        \A i \in 1..Len(rules) : Effective(rules[i], now) => InKernel(kmaps, rules[i].Value)

====
